---- MODULE Spec2Model ----
(***************************************************************************)
(* The two bake controllers of                                             *)
(* source/blender/editors/physics/physics_fluid.c.                         *)
(*                                                                         *)
(* Spec: the Mantaflow bake/free job controller: the five-stage cache      *)
(* state machine (cache_flag, pause markers, cache directories), the frame *)
(* loop with its break test, and the start/end hooks of the job wrapper.   *)
(*                                                                         *)
(* LegacySpec: the legacy bake fluidsimBake: scene validation, the path    *)
(* resolver, channel sampling, and the hand-over to the solver.            *)
(***************************************************************************)
EXTENDS Integers, Sequences, FiniteSets, TLC

(* ------------------------------ bounds --------------------------------- *)

\* number of events of the environment explored in one behaviour: bake and
\* free operator calls, edits of the cache frame range, failing frame steps
MaxEvents == 3

\* number of frames of the longest cache frame range explored
NumFrames == 3

\* cache_frame_start values explored; frame numbers are positive, 0 being the
\* "not started" value of a pause marker
StartFrames == {10}

\* scene->r.cfra before any bake
SceneFrames == {1}

\* the cache directories told apart: the one the user configured and the one
\* of FLUID_DOMAIN_DIR_DEFAULT
CacheDirs == {"user", "default"}

\* what BLI_dir_create_recursive can create at the time of a call: both
\* directories, the default one only, or none
Usable == {{"user", "default"}, {"default"}, {}}

\* sds->cache_directory before the first operator call
CacheDirectories == {"user"}

(* --------------------------- stages and bits --------------------------- *)

Stages == {"DATA", "NOISE", "MESH", "PARTICLES", "GUIDING"}

FLUID_DOMAIN_BAKING_DATA == "BAKING_DATA"
FLUID_DOMAIN_BAKED_DATA == "BAKED_DATA"
FLUID_DOMAIN_BAKING_NOISE == "BAKING_NOISE"
FLUID_DOMAIN_BAKED_NOISE == "BAKED_NOISE"
FLUID_DOMAIN_BAKING_MESH == "BAKING_MESH"
FLUID_DOMAIN_BAKED_MESH == "BAKED_MESH"
FLUID_DOMAIN_BAKING_PARTICLES == "BAKING_PARTICLES"
FLUID_DOMAIN_BAKED_PARTICLES == "BAKED_PARTICLES"
FLUID_DOMAIN_BAKING_GUIDING == "BAKING_GUIDING"
FLUID_DOMAIN_BAKED_GUIDING == "BAKED_GUIDING"

\* the BAKING bit / BAKED bit of a stage, as the per-type branches pair them
BakingBit(X) ==
  CASE X = "DATA" -> FLUID_DOMAIN_BAKING_DATA
    [] X = "NOISE" -> FLUID_DOMAIN_BAKING_NOISE
    [] X = "MESH" -> FLUID_DOMAIN_BAKING_MESH
    [] X = "PARTICLES" -> FLUID_DOMAIN_BAKING_PARTICLES
    [] X = "GUIDING" -> FLUID_DOMAIN_BAKING_GUIDING

BakedBit(X) ==
  CASE X = "DATA" -> FLUID_DOMAIN_BAKED_DATA
    [] X = "NOISE" -> FLUID_DOMAIN_BAKED_NOISE
    [] X = "MESH" -> FLUID_DOMAIN_BAKED_MESH
    [] X = "PARTICLES" -> FLUID_DOMAIN_BAKED_PARTICLES
    [] X = "GUIDING" -> FLUID_DOMAIN_BAKED_GUIDING

\* operator idnames (job->type)
BakeTypes == {"MANTA_OT_bake_data", "MANTA_OT_bake_noise", "MANTA_OT_bake_mesh",
              "MANTA_OT_bake_particles", "MANTA_OT_bake_guiding"}

FreeTypes == {"MANTA_OT_free_data", "MANTA_OT_free_noise", "MANTA_OT_free_mesh",
              "MANTA_OT_free_particles", "MANTA_OT_free_guiding"}

\* the stage an operator idname names
StageOfType(type) ==
  CASE type \in {"MANTA_OT_bake_data", "MANTA_OT_free_data"} -> "DATA"
    [] type \in {"MANTA_OT_bake_noise", "MANTA_OT_free_noise"} -> "NOISE"
    [] type \in {"MANTA_OT_bake_mesh", "MANTA_OT_free_mesh"} -> "MESH"
    [] type \in {"MANTA_OT_bake_particles", "MANTA_OT_free_particles"} -> "PARTICLES"
    [] type \in {"MANTA_OT_bake_guiding", "MANTA_OT_free_guiding"} -> "GUIDING"
    [] OTHER -> "NONE"

\* some stage has its BAKING bit set
AnyBaking(flag) == \E X \in Stages : BakingBit(X) \in flag

(* ------------------------------- state --------------------------------- *)

VARIABLES
  cache_flag,         \* sds->cache_flag: the set of bits that are set
  cache_frame_pause,  \* sds->cache_frame_pause_<stage>
  dirs,               \* per cache directory, the stages whose sub-directory exists
  cache_directory,    \* sds->cache_directory: "", "user" or "default"
  cache_frame_start,  \* sds->cache_frame_start
  cache_frame_end,    \* sds->cache_frame_end
  error,              \* sds->error
  is_break,           \* G.is_break
  cfra,               \* scene->r.cfra
  job,                \* the FluidMantaflowJob in the job slot; blocking: it is run
                      \* by fluid_manta_bake_exec inside the operator call
  loc,                \* worker position and the locals of the frame loop
  pending,            \* job type waiting for the job slot, or "none"
  report,             \* level of the report of the end hook of the job in the slot
  op,                 \* the bake / free operator call that has just returned: its
                      \* kind, its return value, whether a BAKING bit was set when
                      \* it was called and what the path resolver returned
  nevents,            \* number of environment events so far
  observed,           \* history: frames re-evaluated by the frame loop
  series,             \* history: the runs of one stage `observed` covers
  run,                \* history: what happened in the job of the slot
  cycle,              \* history: a bake of a stage into a fresh sub-directory, its
                      \* free and its bake again, with the frames in the directory
  scene,              \* legacy: scene->base, scene->r.efra, the active object
  fss,                \* legacy: the FluidsimSettings the bake works on
  fsys,               \* legacy: what can be done with the two surface directories
  bake,               \* legacy: the locals of fluidsimBake, what it reported and
                      \* handed to the solver, and the operator's return value
  channels,           \* legacy: the FluidAnimChannels of the bake
  fobjects,           \* legacy: the list of FluidObject of the bake
  script              \* the domain as the script operator sees it, and the
                      \* driver program it wrote

vars == <<cache_flag, cache_frame_pause, dirs, cache_directory, cache_frame_start,
          cache_frame_end, error, is_break, cfra, job, loc, pending, report, op,
          nevents, observed, series, run, cycle,
          scene, fss, fsys, bake, channels, fobjects, script>>

\* the state of the legacy bake
legacy_vars == <<scene, fss, fsys, bake, channels, fobjects>>

\* the state only the Mantaflow controller touches
manta_vars == <<cache_flag, cache_frame_pause, dirs, cache_directory, cache_frame_start,
                cache_frame_end, error, job, loc, pending, report, op, nevents,
                observed, series, run, cycle>>

domain_vars == <<cache_flag, cache_frame_pause, dirs, cache_directory, error>>

NoOp == [kind |-> "none", result |-> "NONE", baking |-> FALSE, paths |-> "none"]

NoJob == [type |-> "none", success |-> 0, pause_frame |-> "NULL", blocking |-> FALSE,
          do_update |-> FALSE, progress |-> <<0, 1>>]

IdleLoc == [pc |-> "idle", frame |-> 1, orig_frame |-> 0, frames |-> 0]

NoRun == [first |-> 0, cancelled |-> FALSE, complete |-> FALSE, err_frame |-> 0,
          stored_error |-> FALSE, last_frame |-> 0, requested |-> FALSE, iterations |-> 0,
          pre_flag |-> {}, pre_dirs |-> <<>>, pre_pause |-> <<>>, directory |-> ""]

NoCycle == [stage |-> "NONE", phase |-> "none", written |-> {}, files |-> {},
            bits |-> {}, refiles |-> {}, rebits |-> {}, first |-> 0]

NoSeries == [stage |-> "NONE", cancels |-> <<>>, clean |-> TRUE, complete |-> FALSE]

\* outcomes of one scene re-evaluation / per-stage step: "" is a normal
\* return, anything else is the message left in the domain's error field
StepOutcomes == {"", "step failed"}

MantaInit ==
  /\ cache_flag = {}
  /\ cache_frame_pause = [X \in Stages |-> 0]
  /\ dirs = [d \in CacheDirs |-> {}]
  /\ cache_directory \in CacheDirectories
  /\ cache_frame_start \in StartFrames
  /\ cache_frame_end \in {cache_frame_start - 1, cache_frame_start + NumFrames - 1}
  /\ error = ""
  /\ is_break = FALSE
  /\ cfra \in SceneFrames
  /\ job = NoJob
  /\ loc = IdleLoc
  /\ pending = "none"
  /\ report = "NONE"
  /\ op = NoOp
  /\ nevents = 0
  /\ observed = <<>>
  /\ series = NoSeries
  /\ run = NoRun
  /\ cycle = NoCycle

(* ------------------------ legacy bake: inputs -------------------------- *)

\* the object count fluid_validate_scene compares with
ChannelObjLimit == 255

\* no. of entries for the two channel sizes
CHANNEL_FLOAT == 1
CHANNEL_VEC == 3

\* how often the bake operator is called in one behaviour
MaxCalls == 2

\* scene->r.efra
EndFrames == {0, 2, 5}

\* animStart, animEnd (in thousandths) and animRate of the settings
AnimStarts == {0, 500}
AnimEnds == {1000, 0}
AnimRates == {-1, 1, 2}

\* maxRefine and resolutionxyz of the settings
Refines == {<<-1, 50>>, <<-1, 100>>, <<-1, 200>>, <<2, 50>>}

\* the settings the bake meets: every start and end with rate 1, every rate
\* with the times 0 and 1, every refine setting with the times 0 and 1 at rate 1
DomainSettings ==
  {p \in (AnimStarts \X AnimEnds \X AnimRates) \X Refines :
     \/ p[1] = <<0, 1000, 1>>
     \/ p[2] = <<-1, 50>> /\ (p[1][3] = 1 \/ (p[1][1] = 0 /\ p[1][2] = 1000))}

\* surfdataPath of the settings
SurfdataPaths == {"", "user"}

\* what BLI_dir_create_recursive and BLI_file_is_writable find for a directory
DirStates == {"writable", "readonly", "missing"}

\* the frames whose baked files lie in the surface directory
BakedFiles == {{}, {1, 2}}

\* vertex count of the mesh of an animated object
NumVerts == 2

\* the frames at which the mesh of an animated object has one vertex more
Reshapes == {{}, {2}, {2, 3, 4, 5}}

\* one entry of scene->base: count objects of one kind; type "NONE" is an
\* object without a fluid modifier, mesh is ob->type == OB_MESH; novecgen is
\* fss->domainNovecgen, reverse is fss->flag & OB_FLUIDSIM_REVERSE
Ob(name, type, count) ==
  [name |-> name, type |-> type, mesh |-> TRUE, count |-> count,
   novecgen |-> FALSE, typeFlags |-> {"NOSLIP"}, reverse |-> FALSE, reshaped |-> {}]

Camera == [Ob("Camera", "NONE", 1) EXCEPT !.mesh = FALSE]

\* an object whose mesh is exported per frame
Deforming(name, type, slip, reshaped) ==
  [Ob(name, type, 1) EXCEPT !.novecgen = TRUE, !.typeFlags = {slip},
                            !.reshaped = reshaped]

DomainLists ==
  {<<>>, <<Ob("Domain", "DOMAIN", 1)>>,
   <<Ob("Domain", "DOMAIN", 1), Ob("Domain.001", "DOMAIN", 1)>>}

InputLists == {<<>>, <<Ob("Fluid", "FLUID", 1)>>, <<Ob("Inflow", "INFLOW", 1)>>}

ObstacleCounts == {ChannelObjLimit - 2, ChannelObjLimit - 1, ChannelObjLimit}

ObstacleLists == {<<>>} \cup {<<Ob("Obstacle", "OBSTACLE", n)>> : n \in ObstacleCounts}

Controls ==
  <<[Ob("Control", "CONTROL", 1) EXCEPT !.typeFlags = {"FREESLIP"}, !.reverse = TRUE],
    Ob("Particle", "PARTICLE", 1)>>

ExtraLists ==
  {<<>>, Controls, <<[Ob("Obstacle", "OBSTACLE", 1) EXCEPT !.typeFlags = {}]>>}
    \cup {Controls \o <<Deforming("Cloth", "OBSTACLE", "PARTSLIP", r)>> : r \in Reshapes}
    \cup {<<Deforming("Jet", "INFLOW", "FREESLIP", {})>>}

\* the scenes: the large ones to reach the object limit, the small ones with
\* control, particle and animated objects
SmallBases ==
  {d \o i \o e \o <<Camera>> :
     d \in DomainLists, i \in InputLists, e \in ExtraLists}

Bases ==
  {d \o i \o o \o <<Camera>> :
     d \in DomainLists, i \in InputLists, o \in ObstacleLists}
    \cup SmallBases

\* CTX_data_active_object: no object, or one of the single objects of the scene
ActiveObjects(base) ==
  {"NULL"} \cup {base[k].name : k \in {j \in 1 .. Len(base) :
                                          base[j].type \in {"DOMAIN", "FLUID", "INFLOW"}}}

NoFsset == [animStart |-> 0, aniFrameTime |-> 0, noOfFrames |-> 0,
            maxRefine |-> 0, channelSizeFrameTime |-> 0,
            channelSizeViscosity |-> 0, channelSizeGravity |-> 0]

\* the blocks the bake owns, by kind; heap[c] is the number allocated and not
\* yet freed, below 0 when a block was freed more often than allocated
HeapClasses ==
  {"channels", "domain", "fobjects", "fobj", "object", "vertex", "arrays",
   "fsset", "fb"}

NoHeap == [c \in HeapClasses |-> 0]

\* the FluidBakeJob of the background job with what its pointers point at:
\* the job's stop and do_update flags and its progress (in thousandths),
\* settings->noOfFrames, and the last call of runSimulationCallback
NoFb == [stop |-> FALSE, do_update |-> FALSE, progress |-> 0, noOfFrames |-> 0,
         status |-> "NONE", frame |-> 0, ret |-> "NONE"]

\* pc, the job and the counts of calls and of elbeemSimulate runs belong to
\* the program, the other fields to the call of fluidsimBake in hand
NoBake == [pc |-> "idle", calls |-> 0, job |-> "none", simulated |-> 0,
           do_job |-> FALSE, fsDomain |-> "NULL", adopted |-> "NULL",
           domain |-> "NULL", noFrames |-> 0, origFrame |-> 0, i |-> 0,
           result |-> "NONE", reports |-> <<>>, targetDir |-> "",
           paths |-> "none", elbeemInit |-> FALSE, fsset |-> NoFsset,
           entered |-> FALSE, scheduled |-> FALSE, ran |-> FALSE,
           meshes |-> <<>>, gridlevels |-> 0, fb |-> NoFb,
           heap |-> NoHeap]

NoChannels == [length |-> 0, aniFrameTime |-> 0, timeAtFrame |-> <<>>,
               DomainTime |-> <<>>, DomainGravity |-> <<>>, DomainViscosity |-> <<>>]

\* the legacy bake at rest, as the Mantaflow controller sees it
LegacyIdle ==
  /\ scene = [base |-> <<Camera>>, efra |-> 0, active |-> "NULL",
              gravity |-> <<0, 0, -981>>, global_gravity |-> TRUE]
  /\ fss = [surfdataPath |-> "", animStart |-> 0, animEnd |-> 0, animRate |-> 0,
            grav |-> <<0, 0, 0>>, viscosityValue |-> 1, viscosityExponent |-> 6,
            maxRefine |-> -1, resolutionxyz |-> 50, previewresxyz |-> 100,
            bakeStart |-> 0, bakeEnd |-> 0, lastgoodframe |-> -1]
  /\ fsys = [dirs |-> [d \in CacheDirs |-> "writable"], baked |-> {}]
  /\ bake = NoBake
  /\ channels = NoChannels
  /\ fobjects = <<>>

\* no driver program has been asked for
NoScript == [type |-> "GAS", fluid |-> "NULL", flags |-> {}, id |-> 0,
             dir |-> FALSE, flavor |-> "none", text |-> <<>>]

ScriptIdle == script = NoScript

Init == MantaInit /\ LegacyIdle /\ ScriptIdle

\* the Mantaflow controller at rest, and a scene for the legacy bake
LegacyInit ==
  /\ MantaInit
  /\ ScriptIdle
  /\ cache_frame_end = cache_frame_start + NumFrames - 1
  /\ \E base \in Bases, path \in SurfdataPaths, p \in DomainSettings,
        states \in [CacheDirs -> DirStates], baked \in BakedFiles :
       LET plain_settings == p = <<<<0, 1000, 1>>, <<-1, 50>>>>
           plain_files == /\ path = ""
                          /\ baked = {}
                          /\ \A d \in CacheDirs : states[d] = "writable"
       IN \* the object limit with plain settings and files; settings and
          \* files vary one at a time
          /\ base \in SmallBases \/ (plain_settings /\ plain_files)
          /\ plain_settings \/ plain_files
          /\ \E active \in ActiveObjects(base), efra \in EndFrames :
               scene = [base |-> base, efra |-> efra, active |-> active,
                        gravity |-> <<0, 0, -981>>, global_gravity |-> TRUE]
          /\ fss = [surfdataPath |-> path, animStart |-> p[1][1],
                    animEnd |-> p[1][2], animRate |-> p[1][3],
                    grav |-> <<0, 0, 0>>, viscosityValue |-> 1,
                    viscosityExponent |-> 6, maxRefine |-> p[2][1],
                    resolutionxyz |-> p[2][2], previewresxyz |-> 100,
                    bakeStart |-> 0, bakeEnd |-> 0, lastgoodframe |-> -1]
          /\ fsys = [dirs |-> states, baked |-> baked]
  /\ bake = NoBake
  /\ channels = NoChannels
  /\ fobjects = <<>>

(* -------------------- pure parts of the handlers ----------------------- *)

\* faulty variant of InitialFrame: every run starts at cache_frame_start
InitialFrame_restart(pause, start) == start

\* faulty variant of InitialFrame: a resumed run skips the frame of the marker
InitialFrame_next(pause, start) == IF pause = 0 THEN start ELSE pause + 1

\* faulty variant of BakeProgress: the frames done, not the frames before
BakeProgress_done(frame, start, frames) == <<frame - start + 1, frames>>

\* fluid_manta_bake_sequence: progress = (frame - cache_frame_start) / (float)frames,
\* kept as numerator and denominator
BakeProgress(frame, start, frames) == <<frame - start, frames>>

\* fluid_manta_bake_sequence: frame = is_first_frame ? cache_frame_start : *pause_frame
InitialFrame(pause, start) == IF pause = 0 THEN start ELSE pause

\* fluid_manta_bake_startjob: cache_flag after the branch on job->type
BakeStartFlag(type, flag) ==
  CASE type = "MANTA_OT_bake_data" ->
         (flag \ {FLUID_DOMAIN_BAKED_DATA}) \cup {FLUID_DOMAIN_BAKING_DATA}
    [] type = "MANTA_OT_bake_noise" ->
         (flag \ {FLUID_DOMAIN_BAKED_NOISE}) \cup {FLUID_DOMAIN_BAKING_NOISE}
    [] type = "MANTA_OT_bake_mesh" ->
         (flag \ {FLUID_DOMAIN_BAKED_MESH}) \cup {FLUID_DOMAIN_BAKING_MESH}
    [] type = "MANTA_OT_bake_particles" ->
         (flag \ {FLUID_DOMAIN_BAKED_PARTICLES}) \cup {FLUID_DOMAIN_BAKING_PARTICLES}
    [] type = "MANTA_OT_bake_guiding" ->
         (flag \ {FLUID_DOMAIN_BAKED_GUIDING}) \cup {FLUID_DOMAIN_BAKING_GUIDING}
    [] OTHER -> flag

\* fluid_manta_bake_startjob: the sub-directory the branch creates
BakeStartDir(type) ==
  CASE type = "MANTA_OT_bake_data" -> {"DATA"}
    [] type = "MANTA_OT_bake_noise" -> {"NOISE"}
    [] type = "MANTA_OT_bake_mesh" -> {"MESH"}
    [] type = "MANTA_OT_bake_particles" -> {"PARTICLES"}
    [] type = "MANTA_OT_bake_guiding" -> {"GUIDING"}
    [] OTHER -> {}

\* fluid_manta_bake_startjob: job->pause_frame = &sds->cache_frame_pause_<stage>
PauseFramePtr(type) ==
  CASE type = "MANTA_OT_bake_data" -> "DATA"
    [] type = "MANTA_OT_bake_noise" -> "NOISE"
    [] type = "MANTA_OT_bake_mesh" -> "MESH"
    [] type = "MANTA_OT_bake_particles" -> "PARTICLES"
    [] type = "MANTA_OT_bake_guiding" -> "GUIDING"
    [] OTHER -> "NULL"

\* faulty variant of BakeEndFlag: BAKED is set without clearing BAKING
BakeEndFlag_keep(type, flag) ==
  IF type \in BakeTypes THEN flag \cup {BakedBit(StageOfType(type))} ELSE flag

\* fluid_manta_bake_endjob: cache_flag after the branch on job->type
BakeEndFlag(type, flag) ==
  CASE type = "MANTA_OT_bake_data" ->
         (flag \ {FLUID_DOMAIN_BAKING_DATA}) \cup {FLUID_DOMAIN_BAKED_DATA}
    [] type = "MANTA_OT_bake_noise" ->
         (flag \ {FLUID_DOMAIN_BAKING_NOISE}) \cup {FLUID_DOMAIN_BAKED_NOISE}
    [] type = "MANTA_OT_bake_mesh" ->
         (flag \ {FLUID_DOMAIN_BAKING_MESH}) \cup {FLUID_DOMAIN_BAKED_MESH}
    [] type = "MANTA_OT_bake_particles" ->
         (flag \ {FLUID_DOMAIN_BAKING_PARTICLES}) \cup {FLUID_DOMAIN_BAKED_PARTICLES}
    [] type = "MANTA_OT_bake_guiding" ->
         (flag \ {FLUID_DOMAIN_BAKING_GUIDING}) \cup {FLUID_DOMAIN_BAKED_GUIDING}
    [] OTHER -> flag

\* fluid_manta_bake_endjob / fluid_manta_free_endjob: level of the report
EndReport(success, err) ==
  IF success # 0 THEN "INFO"
  ELSE IF err # "" THEN "ERROR"
  ELSE "WARNING"

\* faulty variant of FreeFlag: a free clears the bits of every stage
FreeFlag_all(type, flag) ==
  IF type \in FreeTypes THEN {} ELSE flag

\* fluid_manta_free_startjob: cache_flag after the branch on job->type
FreeFlag(type, flag) ==
  CASE type = "MANTA_OT_free_data" ->
         flag \ {FLUID_DOMAIN_BAKING_DATA, FLUID_DOMAIN_BAKED_DATA,
                 FLUID_DOMAIN_BAKING_NOISE, FLUID_DOMAIN_BAKED_NOISE,
                 FLUID_DOMAIN_BAKING_MESH, FLUID_DOMAIN_BAKED_MESH,
                 FLUID_DOMAIN_BAKING_PARTICLES, FLUID_DOMAIN_BAKED_PARTICLES}
    [] type = "MANTA_OT_free_noise" ->
         flag \ {FLUID_DOMAIN_BAKING_NOISE, FLUID_DOMAIN_BAKED_NOISE}
    [] type = "MANTA_OT_free_mesh" ->
         flag \ {FLUID_DOMAIN_BAKING_MESH, FLUID_DOMAIN_BAKED_MESH}
    [] type = "MANTA_OT_free_particles" ->
         flag \ {FLUID_DOMAIN_BAKING_PARTICLES, FLUID_DOMAIN_BAKED_PARTICLES}
    [] type = "MANTA_OT_free_guiding" ->
         flag \ {FLUID_DOMAIN_BAKING_GUIDING, FLUID_DOMAIN_BAKED_GUIDING}
    [] OTHER -> flag

\* fluid_manta_free_startjob: the directories the branch deletes
FreeDirs(type) ==
  CASE type = "MANTA_OT_free_data" -> {"DATA", "NOISE", "MESH", "PARTICLES"}
    [] type = "MANTA_OT_free_noise" -> {"NOISE"}
    [] type = "MANTA_OT_free_mesh" -> {"MESH"}
    [] type = "MANTA_OT_free_particles" -> {"PARTICLES"}
    [] type = "MANTA_OT_free_guiding" -> {"GUIDING"}
    [] OTHER -> {}

\* faulty variant of FreePause: only free DATA resets a pause marker
FreePause_data_only(type, pause) ==
  IF type = "MANTA_OT_free_data" THEN [pause EXCEPT !["DATA"] = 0] ELSE pause

\* faulty variant of FreePause: a free leaves the pause markers alone
FreePause_stale(type, pause) == pause

\* fluid_manta_free_startjob: the pause markers after the branch ("Reset pause frame")
FreePause(type, pause) ==
  CASE type = "MANTA_OT_free_data" -> [pause EXCEPT !["DATA"] = 0]
    [] type = "MANTA_OT_free_noise" -> [pause EXCEPT !["NOISE"] = 0]
    [] type = "MANTA_OT_free_mesh" -> [pause EXCEPT !["MESH"] = 0]
    [] type = "MANTA_OT_free_particles" -> [pause EXCEPT !["PARTICLES"] = 0]
    [] type = "MANTA_OT_free_guiding" -> [pause EXCEPT !["GUIDING"] = 0]
    [] OTHER -> pause

\* the frames in <cache>/<stage> after the step of `frame`: a step that
\* returns normally has written its frame
StepFiles(found, frame, out) == IF out = "" THEN found \cup {frame} ELSE found

\* fluid_manta_free_exec: "Cannot free data if other bakes currently working"
FreeRejected(flag) ==
  flag \cap {FLUID_DOMAIN_BAKING_DATA, FLUID_DOMAIN_BAKING_NOISE,
             FLUID_DOMAIN_BAKING_MESH, FLUID_DOMAIN_BAKING_PARTICLES} # {}

\* fluid_manta_initpaths: its return value, the cache_directory it leaves in
\* the domain settings and the levels of its reports; `usable` are the
\* directories BLI_dir_create_recursive can create
fluid_manta_initpaths(directory, usable) ==
  LET nonempty == IF directory = "" THEN "default" ELSE directory
      warned == IF directory = "" THEN <<"WARNING">> ELSE <<>>
      dir_exists == nonempty \in usable
  IN IF ~dir_exists
     THEN [ok |-> FALSE, dir |-> "default",
           reports |-> warned \o <<"ERROR">> \o
                       (IF "default" \in usable THEN <<>> ELSE <<"ERROR">>)]
     ELSE [ok |-> TRUE, dir |-> nonempty, reports |-> warned]

\* number of environment events of an operator call: the call itself, and a
\* cache directory that could not be created
CallEvents(paths) == IF paths.ok THEN 1 ELSE 2

(* ----------------------------- job slot -------------------------------- *)

\* the host's job slot keyed by (scene, WM_JOB_TYPE_OBJECT_SIM_MANTA)
SlotBusy == loc.pc \in {"scheduled", "loop", "finished"}

\* the main thread is inside fluid_manta_bake_exec: no other operator, edit
\* or pause request is dispatched until the call returns
InExec == job.blocking /\ SlotBusy

\* WM_jobs_start: the job runs at once in a free slot, else waits for it;
\* success and pause_frame of the freshly allocated job are written by the
\* start hook before anything reads them
Schedule(type) ==
  IF SlotBusy
  THEN /\ pending' = type
       /\ UNCHANGED <<job, loc, run, report>>
  ELSE /\ job' = [NoJob EXCEPT !.type = type]
       /\ loc' = [IdleLoc EXCEPT !.pc = "scheduled"]
       /\ run' = NoRun
       /\ report' = "NONE"
       /\ UNCHANGED pending

(* ----------------------------- operators ------------------------------- *)

\* fluid_manta_bake_invoke: no check of cache_flag, the job is scheduled
fluid_manta_bake_invoke ==
  /\ ~InExec
  /\ \E type \in BakeTypes, usable \in Usable :
       LET paths == fluid_manta_initpaths(cache_directory, usable)
       IN /\ nevents + CallEvents(paths) <= MaxEvents
          /\ nevents' = nevents + CallEvents(paths)
          /\ cache_directory' = paths.dir
          /\ Schedule(type)
          /\ op' = [kind |-> "bake", result |-> "RUNNING_MODAL",
                    baking |-> AnyBaking(cache_flag),
                    paths |-> IF paths.ok THEN "ok" ELSE "failed"]
  /\ UNCHANGED <<cache_flag, cache_frame_pause, dirs, error, cache_frame_start,
                 cache_frame_end, is_break, cfra, observed, series, cycle>>
  /\ UNCHANGED <<legacy_vars, script>>

\* fluid_manta_bake_exec: the start hook, the frame loop and the end hook run
\* inside the call, which then returns FINISHED (explored when no background
\* job is in the slot)
fluid_manta_bake_exec ==
  /\ ~SlotBusy
  /\ pending = "none"
  /\ \E type \in BakeTypes, usable \in Usable :
       LET paths == fluid_manta_initpaths(cache_directory, usable)
       IN /\ nevents + CallEvents(paths) <= MaxEvents
          /\ nevents' = nevents + CallEvents(paths)
          /\ cache_directory' = paths.dir
          /\ job' = [NoJob EXCEPT !.type = type, !.blocking = TRUE]
          /\ op' = [kind |-> "bake", result |-> "FINISHED",
                    baking |-> AnyBaking(cache_flag),
                    paths |-> IF paths.ok THEN "ok" ELSE "failed"]
  /\ loc' = [IdleLoc EXCEPT !.pc = "scheduled"]
  /\ run' = NoRun
  /\ report' = "NONE"
  /\ UNCHANGED <<cache_flag, cache_frame_pause, dirs, error, cache_frame_start,
                 cache_frame_end, is_break, cfra, pending, observed, series, cycle>>
  /\ UNCHANGED <<legacy_vars, script>>

\* fluid_manta_free_exec
fluid_manta_free_exec ==
  /\ ~InExec
  /\ \E type \in FreeTypes, usable \in Usable :
       IF FreeRejected(cache_flag)
       THEN /\ nevents < MaxEvents
            /\ nevents' = nevents + 1
            /\ op' = [kind |-> "free", result |-> "CANCELLED",
                      baking |-> AnyBaking(cache_flag), paths |-> "none"]
            /\ UNCHANGED <<job, loc, run, pending, report, cache_directory>>
       ELSE LET paths == fluid_manta_initpaths(cache_directory, usable)
            IN /\ nevents + CallEvents(paths) <= MaxEvents
               /\ nevents' = nevents + CallEvents(paths)
               /\ cache_directory' = paths.dir
               /\ Schedule(type)
               /\ op' = [kind |-> "free", result |-> "FINISHED",
                         baking |-> AnyBaking(cache_flag),
                         paths |-> IF paths.ok THEN "ok" ELSE "failed"]
  /\ UNCHANGED <<cache_flag, cache_frame_pause, dirs, error, cache_frame_start,
                 cache_frame_end, is_break, cfra, observed, series, cycle>>
  /\ UNCHANGED <<legacy_vars, script>>

\* history: the bake in the slot has been invoked and a break test of its
\* frame loop is still to come
BreakTestAhead ==
  /\ job.type \in BakeTypes
  /\ \/ /\ loc.pc = "scheduled"
        /\ cache_frame_start <= cache_frame_end
        /\ InitialFrame(cache_frame_pause[PauseFramePtr(job.type)], cache_frame_start)
             <= cache_frame_end
     \/ loc.pc = "loop" /\ loc.frame <= cache_frame_end

\* fluid_manta_pause_exec; run.requested is history: a pause was requested
\* for the bake in the slot and no break test of its loop has run since
fluid_manta_pause_exec ==
  /\ op' = NoOp
  /\ ~InExec
  /\ is_break' = TRUE
  /\ run' = [run EXCEPT !.requested = @ \/ BreakTestAhead]
  /\ UNCHANGED <<domain_vars, cache_frame_start, cache_frame_end, cfra, job, loc,
                 pending, report, nevents, observed, series>>
  /\ UNCHANGED cycle
  /\ UNCHANGED <<legacy_vars, script>>

\* the user edits the cache frame range while no job is in the slot
SetFrameEnd ==
  /\ op' = NoOp
  /\ nevents < MaxEvents
  /\ ~SlotBusy
  /\ pending = "none"
  /\ nevents' = nevents + 1
  /\ \E e \in (cache_frame_start - 1) .. (cache_frame_start + NumFrames - 1) :
       /\ e # cache_frame_end
       /\ cache_frame_end' = e
  /\ observed' = <<>>
  /\ series' = NoSeries
  /\ UNCHANGED <<domain_vars, cache_frame_start, is_break, cfra, job, loc, pending,
                 report, run>>
  /\ cycle' = NoCycle
  /\ UNCHANGED <<legacy_vars, script>>

(* ------------------------------ bake job ------------------------------- *)

\* the stage of the job in the slot
JobStage == StageOfType(job.type)

\* history: the bits of stage X in a cache_flag value
StageBits(X, flag) == flag \cap {BakingBit(X), BakedBit(X)}

\* history: the bake of stage X that starts now opens a cycle when
\* <cache>/<X> does not exist yet, and is the second bake of the cycle when X
\* was baked and freed before
CycleAtStart(X) ==
  IF X \in dirs[cache_directory] THEN NoCycle
  ELSE IF cycle.phase = "freed" /\ cycle.stage = X
  THEN [cycle EXCEPT !.phase = "again"]
  ELSE [NoCycle EXCEPT !.stage = X, !.phase = "first"]

\* history: what the bake of stage X that ends now means for the cycle.  Only
\* a run that went through its frame loop to the end, without a failing step
\* and under one cache directory, counts; the first bake of a cycle is one
\* that covered the range from cache_frame_start
CycleAtEnd(X, flag) ==
  IF /\ cycle.phase \in {"first", "again"}
     /\ run.complete /\ ~run.stored_error /\ run.directory = cache_directory
  THEN IF cycle.phase = "again"
       THEN [cycle EXCEPT !.phase = "rebaked", !.refiles = cycle.written,
                          !.rebits = StageBits(X, flag), !.first = run.first]
       ELSE IF run.first = cache_frame_start
       THEN [cycle EXCEPT !.phase = "baked", !.files = cycle.written,
                          !.bits = StageBits(X, flag)]
       ELSE NoCycle
  ELSE NoCycle

\* history: the run of stage X that starts now continues the series of X, or
\* opens a new one; a series is clean while every earlier run of it was
\* cancelled and it began with pause_X = 0
SeriesAtStart(X) ==
  IF series.stage = X
  THEN [series EXCEPT !.clean = series.clean /\ ~series.complete, !.complete = FALSE]
  ELSE [stage |-> X, cancels |-> <<>>, clean |-> (cache_frame_pause[X] = 0),
        complete |-> FALSE]

\* fluid_manta_bake_startjob up to the head of the frame loop of
\* fluid_manta_bake_sequence
fluid_manta_bake_startjob ==
  /\ op' = NoOp
  /\ loc.pc = "scheduled"
  /\ job.type \in BakeTypes
  /\ is_break' = FALSE
  /\ cache_flag' = BakeStartFlag(job.type, cache_flag)
  /\ dirs' = [dirs EXCEPT ![cache_directory] = @ \cup BakeStartDir(job.type)]
  /\ job' = [job EXCEPT !.success = 1, !.pause_frame = PauseFramePtr(job.type),
                         !.do_update = ~job.blocking]
  /\ series' = SeriesAtStart(StageOfType(job.type))
  /\ observed' = IF series.stage = StageOfType(job.type) THEN observed ELSE <<>>
  /\ IF cache_frame_end - cache_frame_start + 1 <= 0
     THEN /\ error' = "No frames to bake"
          /\ loc' = [loc EXCEPT !.pc = "finished"]
          /\ run' = [NoRun EXCEPT !.stored_error = TRUE, !.requested = run.requested]
          /\ UNCHANGED cfra
     ELSE /\ LET frame == InitialFrame(cache_frame_pause[PauseFramePtr(job.type)],
                                       cache_frame_start)
             IN /\ loc' = [pc |-> "loop", frame |-> frame, orig_frame |-> cfra,
                            frames |-> cache_frame_end - cache_frame_start + 1]
                /\ cfra' = frame
                /\ run' = [NoRun EXCEPT !.first = frame, !.directory = cache_directory,
                                        !.requested = run.requested]
          /\ UNCHANGED error
  /\ UNCHANGED <<cache_frame_pause, cache_directory, cache_frame_start,
                 cache_frame_end, pending, report, nevents>>
  /\ cycle' = CycleAtStart(JobStage)
  /\ UNCHANGED <<legacy_vars, script>>

\* fluid_manta_bake_sequence: one pass of the frame loop, or its exit
fluid_manta_bake_sequence ==
  /\ op' = NoOp
  /\ loc.pc = "loop"
  /\ IF loc.frame <= cache_frame_end
     THEN /\ cache_frame_pause' = [cache_frame_pause EXCEPT ![job.pause_frame] = loc.frame]
          /\ IF is_break
             THEN /\ job' = [job EXCEPT !.success = 0]
                  /\ loc' = [loc EXCEPT !.pc = "finished"]
                  /\ run' = [run EXCEPT !.cancelled = TRUE, !.requested = FALSE]
                  /\ series' = [series EXCEPT !.cancels = Append(series.cancels, loc.frame)]
                  /\ UNCHANGED <<cfra, error, observed, nevents, cycle>>
             ELSE /\ cfra' = loc.frame
                  /\ observed' = Append(observed, loc.frame)
                  /\ \E out \in StepOutcomes :
                       /\ out # "" => nevents < MaxEvents
                       /\ nevents' = IF out = "" THEN nevents ELSE nevents + 1
                       /\ error' = IF out = "" THEN error ELSE out
                       /\ cycle' = IF cycle.phase \in {"first", "again"}
                                   THEN [cycle EXCEPT !.written =
                                                        StepFiles(@, loc.frame, out)]
                                   ELSE cycle
                       /\ run' = [run EXCEPT
                                    !.requested = FALSE,
                                    !.iterations = @ + 1,
                                    !.last_frame = loc.frame,
                                    !.err_frame = IF out # "" /\ run.err_frame = 0
                                                  THEN loc.frame ELSE run.err_frame,
                                    !.stored_error = run.stored_error \/ out # ""]
                  /\ loc' = [loc EXCEPT !.frame = loc.frame + 1]
                  /\ job' = IF job.blocking THEN job
                            ELSE [job EXCEPT
                                    !.do_update = TRUE,
                                    !.progress = BakeProgress(loc.frame, cache_frame_start,
                                                              loc.frames)]
                  /\ UNCHANGED series
     ELSE /\ cfra' = loc.orig_frame
          /\ loc' = [loc EXCEPT !.pc = "finished"]
          /\ run' = [run EXCEPT !.complete = TRUE]
          /\ series' = [series EXCEPT !.complete = TRUE]
          /\ UNCHANGED <<cache_frame_pause, job, error, observed, nevents, cycle>>
  /\ UNCHANGED <<cache_flag, dirs, cache_directory, cache_frame_start,
                 cache_frame_end, is_break, pending, report>>
  /\ UNCHANGED <<legacy_vars, script>>

\* fluid_manta_bake_endjob
fluid_manta_bake_endjob ==
  /\ op' = NoOp
  /\ loc.pc = "finished"
  /\ job.type \in BakeTypes
  /\ cache_flag' = BakeEndFlag(job.type, cache_flag)
  /\ report' = EndReport(job.success, error)
  /\ loc' = [loc EXCEPT !.pc = "ended"]
  /\ UNCHANGED <<cache_frame_pause, dirs, cache_directory, cache_frame_start,
                 cache_frame_end, error, is_break, cfra, job, pending, nevents,
                 observed, series, run>>
  /\ cycle' = CycleAtEnd(JobStage, cache_flag')
  /\ UNCHANGED <<legacy_vars, script>>

(* ------------------------------ free job ------------------------------- *)

\* fluid_manta_free_startjob
fluid_manta_free_startjob ==
  /\ op' = NoOp
  /\ loc.pc = "scheduled"
  /\ job.type \in FreeTypes
  /\ is_break' = FALSE
  /\ job' = [job EXCEPT !.success = 1]
  /\ cache_flag' = FreeFlag(job.type, cache_flag)
  /\ dirs' = [dirs EXCEPT ![cache_directory] = @ \ FreeDirs(job.type)]
  /\ cache_frame_pause' = FreePause(job.type, cache_frame_pause)
  /\ cfra' = cache_frame_start
  /\ loc' = [loc EXCEPT !.pc = "finished"]
  /\ run' = [NoRun EXCEPT !.pre_flag = cache_flag, !.pre_dirs = dirs,
                          !.pre_pause = cache_frame_pause,
                          !.directory = cache_directory]
  /\ IF series.stage \in FreeDirs(job.type)
     THEN observed' = <<>> /\ series' = NoSeries
     ELSE UNCHANGED <<observed, series>>
  /\ UNCHANGED <<cache_directory, cache_frame_start, cache_frame_end, error, pending,
                 report, nevents>>
  /\ cycle' = IF cycle.phase = "baked" /\ JobStage = cycle.stage
              THEN [cycle EXCEPT !.phase = "freed", !.written = {}] ELSE NoCycle
  /\ UNCHANGED <<legacy_vars, script>>

\* fluid_manta_free_endjob
fluid_manta_free_endjob ==
  /\ op' = NoOp
  /\ loc.pc = "finished"
  /\ job.type \in FreeTypes
  /\ report' = EndReport(job.success, error)
  /\ loc' = [loc EXCEPT !.pc = "ended"]
  /\ run' = NoRun
  /\ UNCHANGED <<domain_vars, cache_frame_start, cache_frame_end, is_break, cfra, job,
                 pending, nevents, observed, series>>
  /\ UNCHANGED cycle
  /\ UNCHANGED <<legacy_vars, script>>

\* the job slot is free again: the waiting job is started
WM_jobs_start_pending ==
  /\ op' = NoOp
  /\ loc.pc = "ended"
  /\ pending # "none"
  /\ job' = [NoJob EXCEPT !.type = pending]
  /\ loc' = [IdleLoc EXCEPT !.pc = "scheduled"]
  /\ run' = NoRun
  /\ pending' = "none"
  /\ report' = "NONE"
  /\ UNCHANGED <<domain_vars, cache_frame_start, cache_frame_end, is_break, cfra,
                 nevents, observed, series>>
  /\ UNCHANGED cycle
  /\ UNCHANGED <<legacy_vars, script>>

Next ==
  \/ fluid_manta_bake_invoke
  \/ fluid_manta_bake_exec
  \/ fluid_manta_free_exec
  \/ fluid_manta_pause_exec
  \/ SetFrameEnd
  \/ fluid_manta_bake_startjob
  \/ fluid_manta_bake_sequence
  \/ fluid_manta_bake_endjob
  \/ fluid_manta_free_startjob
  \/ fluid_manta_free_endjob
  \/ WM_jobs_start_pending

Spec == Init /\ [][Next]_vars

\* the worker thread runs on once the job system has started it, and the
\* job system runs the end hook once the worker has returned
\* the stages baked under FairSpec
FairStages == {"DATA", "NOISE"}

\* none but a job of these stages is in the slot or waiting for it
FairJobs ==
  /\ StageOfType(job.type) \in FairStages \cup {"NONE"}
  /\ StageOfType(pending) \in FairStages \cup {"NONE"}

BakeNext ==
  \/ fluid_manta_bake_invoke /\ FairJobs'
  \/ fluid_manta_bake_exec /\ FairJobs'
  \/ fluid_manta_pause_exec
  \/ SetFrameEnd
  \/ fluid_manta_bake_startjob
  \/ fluid_manta_bake_sequence
  \/ fluid_manta_bake_endjob
  \/ WM_jobs_start_pending

\* the bake jobs alone, with a worker thread that runs on once the job
\* system has started it and a job system that runs the end hook once the
\* worker has returned
FairSpec ==
  /\ Init
  /\ [][BakeNext]_vars
  /\ WF_vars(fluid_manta_bake_startjob)
  /\ WF_vars(fluid_manta_bake_sequence)
  /\ WF_vars(fluid_manta_bake_endjob)

(* ------------------ legacy bake: pure parts of the bake ---------------- *)

Error(message) == [type |-> "RPT_ERROR", message |-> message]

Warning(message) == [type |-> "RPT_WARNING", message |-> message]

RECURSIVE Pow10(_)
Pow10(n) == IF n <= 0 THEN 1 ELSE 10 * Pow10(n - 1)

\* (1 / 10^viscosityExponent) * viscosityValue, in millionths
get_fluid_viscosity(settings) ==
  (1000000 \div Pow10(settings.viscosityExponent)) * settings.viscosityValue

\* the rate without the clamp of negative values
get_fluid_rate_unclamped(settings) == settings.animRate

get_fluid_rate(settings) ==
  LET rate == settings.animRate
  IN IF rate < 0 THEN 0 ELSE rate

get_fluid_gravity(sc, settings) ==
  IF sc.global_gravity THEN sc.gravity ELSE settings.grav

fluid_is_animated_mesh(fss_ob) == fss_ob.type = "CONTROL" \/ fss_ob.novecgen

\* the loop of fluid_validate_scene over scene->base from entry k on; an
\* entry stands for count objects of its kind
RECURSIVE ValidateBases(_, _, _, _, _, _)
ValidateBases(base, k, fsDomain, newdomain, channelObjCount, fluidInputCount) ==
  IF k > Len(base)
  THEN [stopped |-> FALSE, newdomain |-> newdomain,
        channelObjCount |-> channelObjCount, fluidInputCount |-> fluidInputCount]
  ELSE LET ob == base[k]
       IN IF ob.type = "NONE" \/ ~ob.mesh
          THEN ValidateBases(base, k + 1, fsDomain, newdomain,
                             channelObjCount, fluidInputCount)
          ELSE IF ob.type = "DOMAIN" /\ fsDomain # "NULL" /\ ob.name # fsDomain
          THEN [stopped |-> TRUE, newdomain |-> newdomain,
                channelObjCount |-> channelObjCount,
                fluidInputCount |-> fluidInputCount]
          ELSE ValidateBases(
                 base, k + 1, fsDomain,
                 IF ob.type = "DOMAIN" /\ fsDomain = "NULL" THEN ob.name ELSE newdomain,
                 IF ob.type \notin {"DOMAIN", "PARTICLE"}
                 THEN channelObjCount + ob.count ELSE channelObjCount,
                 IF ob.type \in {"FLUID", "INFLOW"}
                 THEN fluidInputCount + ob.count ELSE fluidInputCount)

ValidateLimit(channelObjCount) == channelObjCount >= ChannelObjLimit

\* validation that does not look at the fluid input objects
ValidateInputs_any(fluidInputCount) == FALSE

ValidateInputs(fluidInputCount) == fluidInputCount = 0

\* ret is the return value, fsDomain the function's own (by-value) fsDomain
\* at the return, reports what it reported
fluid_validate_scene(sc, fsDomain) ==
  LET r == ValidateBases(sc.base, 1, fsDomain, "NULL", 0, 0)
      domain == IF r.newdomain # "NULL" THEN r.newdomain ELSE fsDomain
      Failed(message) == [ret |-> 0, fsDomain |-> domain, reports |-> <<Error(message)>>]
  IN IF r.stopped
     THEN [ret |-> 0, fsDomain |-> fsDomain,
           reports |-> <<Error("There should be only one domain object")>>]
     ELSE IF domain = "NULL" THEN Failed("No domain object found")
     ELSE IF ValidateLimit(r.channelObjCount)
     THEN Failed("Cannot bake with more than 256 objects")
     ELSE IF ValidateInputs(r.fluidInputCount)
     THEN Failed("No fluid input objects in the scene")
     ELSE [ret |-> 1, fsDomain |-> domain, reports |-> <<>>]

\* the resolver's return value if it gave the default directory a chance
FilepathsResult_retry(first_ok, default_ok) == first_ok \/ default_ok

FilepathsResult(first_ok, default_ok) == first_ok

\* ok is the return value, surfdataPath the stored path at the return
fluid_init_filepaths(surfdataPath, fs) ==
  LET nonempty == IF surfdataPath = "" THEN "default" ELSE surfdataPath
      warned == IF surfdataPath = ""
                THEN <<Warning("empty cache path, reset to default")>> ELSE <<>>
      dir_exists == fs[nonempty] # "missing"
      is_writable == fs[nonempty] = "writable"
      default_ok == fs["default"] = "writable"
  IN IF ~dir_exists \/ ~is_writable
     THEN [ok |-> FilepathsResult(FALSE, default_ok), surfdataPath |-> "default",
           targetDir |-> "default",
           reports |-> warned
             \o <<IF ~dir_exists
                  THEN Error("could not create cache directory, reset to default")
                  ELSE Error("cache directory is not writable, reset to default")>>
             \o (IF default_ok THEN <<>>
                 ELSE <<Error("could not use default cache directory")>>)]
     ELSE [ok |-> FilepathsResult(TRUE, default_ok), surfdataPath |-> nonempty,
           targetDir |-> nonempty, reports |-> warned]

\* MEM_callocN of n floats
Calloc(n) == [k \in 0 .. n - 1 |-> 0]

RECURSIVE InitTimeLoop(_, _, _, _)
InitTimeLoop(timeAtFrame, i, length, aniFrameTime) ==
  IF i > length THEN timeAtFrame
  ELSE InitTimeLoop([timeAtFrame EXCEPT ![i] = timeAtFrame[i - 1] + aniFrameTime],
                    i + 1, length, aniFrameTime)

init_time(animStart, length, aniFrameTime) ==
  InitTimeLoop([Calloc(length + 1) EXCEPT ![0] = animStart, ![1] = animStart],
               2, length, aniFrameTime)

\* a channel whose sample keeps the time of the frame before
set_channel_late(channel, time, value, i, size) ==
  IF size = CHANNEL_FLOAT
  THEN [channel EXCEPT ![i * 2] = value[1]]
  ELSE [channel EXCEPT ![i * 4] = value[1], ![i * 4 + 1] = value[2],
                       ![i * 4 + 2] = value[3]]

set_channel(channel, time, value, i, size) ==
  IF size = CHANNEL_FLOAT
  THEN [channel EXCEPT ![i * 2] = value[1], ![i * 2 + 1] = time]
  ELSE IF size = CHANNEL_VEC
  THEN [channel EXCEPT ![i * 4] = value[1], ![i * 4 + 1] = value[2],
                       ![i * 4 + 2] = value[3], ![i * 4 + 3] = time]
  ELSE channel

\* the vertex count initElbeemMesh finds for the mesh of an object at a frame
MeshVerts(ob, frame) == IF frame \in ob.reshaped THEN NumVerts + 1 ELSE NumVerts

\* fobj after set_vertex_channel(fobj->VertexCache, time, scene, fobj, i).
\* A changed vertex count frees the buffer, clears only the local pointer
\* and returns before verts and tris are freed: fobj->VertexCache keeps
\* pointing at the freed block (VertexCacheFreed).  A later call on the
\* dangling pointer frees it again (DoubleFrees) or writes into it
\* (StaleWrites).
set_vertex_channel(fobj, time, frame, i) ==
  LET framesize == 3 * fobj.numVerts + 1
      numVerts == MeshVerts(fobj, frame)
  IN IF fobj.VertexCache = <<>> THEN fobj
     ELSE IF numVerts # fobj.numVerts
     THEN [fobj EXCEPT !.DoubleFrees = IF fobj.VertexCacheFreed THEN @ + 1 ELSE @,
                       !.VertexCacheFreed = TRUE,
                       !.LeakedArrays = @ + 2]
     ELSE IF fobj.VertexCacheFreed
     THEN [fobj EXCEPT !.StaleWrites = @ + 1]
     ELSE [fobj EXCEPT !.VertexCache =
             [k \in DOMAIN @ |->
                IF k \in i * framesize .. i * framesize + 3 * numVerts - 1
                THEN k - i * framesize + 1
                ELSE IF k = i * framesize + framesize - 1 THEN time ELSE @[k]]]

\* the FluidObject allocated for one entry of scene->base
NewFluidObject(ob, length, frame) ==
  LET channelled == ob.type \notin {"DOMAIN", "PARTICLE"}
      control == ob.type = "CONTROL"
      animated == channelled /\ fluid_is_animated_mesh(ob)
      Vec == IF channelled THEN Calloc(length * (CHANNEL_VEC + 1)) ELSE <<>>
      Float == IF channelled THEN Calloc(length * (CHANNEL_FLOAT + 1)) ELSE <<>>
      Force == IF control THEN Calloc(length * (CHANNEL_FLOAT + 1)) ELSE <<>>
      numVerts == IF animated THEN MeshVerts(ob, frame) ELSE 0
  IN [object |-> ob.name, type |-> ob.type, count |-> ob.count,
      novecgen |-> ob.novecgen, typeFlags |-> ob.typeFlags,
      reverse |-> ob.reverse, reshaped |-> ob.reshaped,
      Translation |-> Vec, Rotation |-> Vec, Scale |-> Vec, Active |-> Float,
      InitialVelocity |-> Vec,
      AttractforceStrength |-> Force, AttractforceRadius |-> Force,
      VelocityforceStrength |-> Force, VelocityforceRadius |-> Force,
      VertexCache |-> IF animated
                      THEN Calloc(length * (numVerts * CHANNEL_VEC + 1)) ELSE <<>>,
      VertexCacheFreed |-> FALSE, DoubleFrees |-> 0, StaleWrites |-> 0,
      LeakedArrays |-> 0, numVerts |-> numVerts]

RECURSIVE AllocateFluidObjects(_, _, _, _)
AllocateFluidObjects(base, k, length, frame) ==
  IF k > Len(base) THEN <<>>
  ELSE (IF base[k].type = "NONE" THEN <<>>
        ELSE <<NewFluidObject(base[k], length, frame)>>)
       \o AllocateFluidObjects(base, k + 1, length, frame)

\* ob->loc, ob->size, the ACTIVE flag, the initial velocity and the control
\* forces of an object
ObLoc == <<1, 2, 3>>
ObSize == <<1, 1, 1>>
ObActive == <<1>>
ObIniVel == <<0, 0, 0>>
ObForce == <<1>>

\* Angles are whole degrees.  The solver's convention is degrees with the
\* sign turned; the host's convention is radians, kept here in units of
\* pi/180 so that both conversions are exact.

\* the angle in (-180, 180] that is the same rotation as `a'
Canonical(a) == ((a + 179) % 360) - 179

\* what an object turns about its z axis from one frame to the next
TurnPerFrame(type) == IF type = "OBSTACLE" THEN 200 ELSE 90

\* the rotation of ob->obmat at a frame, as the plain decomposition gives it
\* (host convention)
ObMatRot(fobj, frame) == <<0, 0, Canonical(TurnPerFrame(fobj.type) * frame)>>

\* mul_v3_fl(v, (float)-M_PI / 180.f): solver convention to host convention
HostFromSolver(v) == [k \in 1 .. 3 |-> 0 - v[k]]

\* mul_v3_fl(v, -180.0f / (float)M_PI): host convention to solver convention
SolverFromHost(v) == [k \in 1 .. 3 |-> 0 - v[k]]

\* mat4_to_compatible_eulO(eul, oldrot, 0, mat): of the angles that are the
\* rotation of the matrix, the ones nearest to the reference
mat4_to_compatible_eulO(oldrot, mat) ==
  [k \in 1 .. 3 |-> mat[k] + 360 * ((oldrot[k] - mat[k] + 180) \div 360)]

\* faulty variant of old_rot: the reference stays the zero vector
old_rot_zero(fobj, i) == <<0, 0, 0>>

\* old_rot of pass i: zero in the first pass, else the object's own sample
\* of the pass before, in the host's convention
old_rot(fobj, i) ==
  IF i # 0
  THEN HostFromSolver(<<fobj.Rotation[4 * (i - 1)], fobj.Rotation[4 * (i - 1) + 1],
                        fobj.Rotation[4 * (i - 1) + 2]>>)
  ELSE <<0, 0, 0>>

\* one object's pass of the frame loop of fluid_init_all_channels
FillFluidObject(fobj, timeAtFrame, frame, i) ==
  IF fobj.type \in {"DOMAIN", "PARTICLE"} THEN fobj
  ELSE LET rot_d == SolverFromHost(mat4_to_compatible_eulO(old_rot(fobj, i),
                                                           ObMatRot(fobj, frame)))
           moved == [fobj EXCEPT
                       !.Translation = set_channel(@, timeAtFrame, ObLoc, i, CHANNEL_VEC),
                       !.Rotation = set_channel(@, timeAtFrame, rot_d, i, CHANNEL_VEC),
                       !.Scale = set_channel(@, timeAtFrame, ObSize, i, CHANNEL_VEC),
                       !.Active = set_channel(@, timeAtFrame, ObActive, i, CHANNEL_FLOAT),
                       !.InitialVelocity =
                          set_channel(@, timeAtFrame, ObIniVel, i, CHANNEL_VEC)]
           forced == IF fobj.type # "CONTROL" THEN moved
                     ELSE [moved EXCEPT
                             !.AttractforceStrength =
                                set_channel(@, timeAtFrame, ObForce, i, CHANNEL_FLOAT),
                             !.AttractforceRadius =
                                set_channel(@, timeAtFrame, ObForce, i, CHANNEL_FLOAT),
                             !.VelocityforceStrength =
                                set_channel(@, timeAtFrame, ObForce, i, CHANNEL_FLOAT),
                             !.VelocityforceRadius =
                                set_channel(@, timeAtFrame, ObForce, i, CHANNEL_FLOAT)]
       IN IF fluid_is_animated_mesh(fobj)
          THEN set_vertex_channel(forced, timeAtFrame, frame, i)
          ELSE forced

\* the domain's part of pass i of the frame loop of fluid_init_all_channels
FillDomainChannels(ch, sc, settings, i) ==
  LET time == get_fluid_rate(settings) * ch.aniFrameTime
      timeAtFrame == IF ch.DomainTime # <<>>
                     THEN ch.timeAtFrame[i] + time ELSE ch.timeAtFrame[i + 1]
      timed == IF ch.DomainTime # <<>>
               THEN [ch EXCEPT !.timeAtFrame[i + 1] = timeAtFrame,
                               !.DomainTime = set_channel(@, i, <<time>>, i, CHANNEL_FLOAT)]
               ELSE ch
  IN [timed EXCEPT
        !.DomainGravity =
           set_channel(@, timeAtFrame, get_fluid_gravity(sc, settings), i, CHANNEL_VEC),
        !.DomainViscosity =
           set_channel(@, timeAtFrame, <<get_fluid_viscosity(settings)>>, i, CHANNEL_FLOAT)]

\* the descriptor elbeemResetMesh leaves: no channel, obstacle type not set
\* by this file
ResetMesh ==
  [type |-> "NONE", name |-> "", count |-> 0, channelSize |-> 0,
   channelTranslation |-> "NULL", channelRotation |-> "NULL",
   channelScale |-> "NULL", channelActive |-> "NULL",
   channelInitialVel |-> "NULL", obstacleType |-> "RESET",
   channelAttractforceStrength |-> "NULL", channelAttractforceRadius |-> "NULL",
   channelVelocityforceStrength |-> "NULL", channelVelocityforceRadius |-> "NULL",
   channelSizeVertices |-> 0, channelVertices |-> "NULL", freedVertices |-> FALSE]

\* a channel pointer of a descriptor: the name of the fobj buffer it points
\* at, "NULL" for a null pointer
ChannelPointer(fobj, field) == IF fobj[field] = <<>> THEN "NULL" ELSE field

\* the obstacle type export_fluid_objects derives from fss->typeFlags
ObstacleType(typeFlags, reset) ==
  IF "NOSLIP" \in typeFlags THEN "NOSLIP"
  ELSE IF "PARTSLIP" \in typeFlags THEN "PARTSLIP"
  ELSE IF "FREESLIP" \in typeFlags THEN "FREESLIP"
  ELSE reset

\* faulty variant of DeformObstacleType: the user's slip flags are kept
DeformObstacleType_keep(type, obstacleType) == obstacleType

\* the override of the obstacle type of an animated mesh that is no control
\* object
DeformObstacleType(type, obstacleType) ==
  IF type # "CONTROL" THEN "NOSLIP" ELSE obstacleType

\* the elbeemMesh export_fluid_objects hands to elbeemAddMesh for one fobj
ExportMesh(fobj, length) ==
  LET deform == fluid_is_animated_mesh(fobj)
      control == fobj.type = "CONTROL"
      base == [ResetMesh EXCEPT
                 !.type = fobj.type, !.name = fobj.object, !.count = fobj.count,
                 !.channelSize = length,
                 !.channelTranslation = ChannelPointer(fobj, "Translation"),
                 !.channelRotation = ChannelPointer(fobj, "Rotation"),
                 !.channelScale = ChannelPointer(fobj, "Scale"),
                 !.channelActive = ChannelPointer(fobj, "Active")]
      inivel == IF fobj.type \in {"FLUID", "INFLOW"}
                THEN [base EXCEPT !.channelInitialVel =
                                     ChannelPointer(fobj, "InitialVelocity")]
                ELSE base
      slip == [inivel EXCEPT !.obstacleType = ObstacleType(fobj.typeFlags, @)]
      forces == IF control
                THEN [slip EXCEPT
                        !.obstacleType = IF fobj.reverse THEN "REVERSE" ELSE "0",
                        !.channelAttractforceStrength =
                           ChannelPointer(fobj, "AttractforceStrength"),
                        !.channelAttractforceRadius =
                           ChannelPointer(fobj, "AttractforceRadius"),
                        !.channelVelocityforceStrength =
                           ChannelPointer(fobj, "VelocityforceStrength"),
                        !.channelVelocityforceRadius =
                           ChannelPointer(fobj, "VelocityforceRadius")]
                ELSE slip
  IN IF deform
     THEN [forces EXCEPT
             !.channelSizeVertices = length,
             !.channelVertices = ChannelPointer(fobj, "VertexCache"),
             !.freedVertices = fobj.VertexCacheFreed,
             !.channelTranslation = "NULL", !.channelRotation = "NULL",
             !.channelScale = "NULL",
             !.obstacleType = DeformObstacleType(fobj.type, @)]
     ELSE forces

\* the descriptors export_fluid_objects adds, in list order
RECURSIVE export_fluid_objects(_, _, _)
export_fluid_objects(fobjs, k, length) ==
  IF k > Len(fobjs) THEN <<>>
  ELSE (IF fobjs[k].type \in {"DOMAIN", "PARTICLE"} THEN <<>>
        ELSE <<ExportMesh(fobjs[k], length)>>)
       \o export_fluid_objects(fobjs, k + 1, length)

RECURSIVE SumSeq(_, _)
SumSeq(seq, k) == IF k > Len(seq) THEN 0 ELSE seq[k] + SumSeq(seq, k + 1)

\* the sum over the list of the per-object numbers per[k], each entry
\* standing for count objects
SumObjects(fobjs, per) ==
  SumSeq([k \in 1 .. Len(fobjs) |-> fobjs[k].count * per[k]], 1)

\* the channel buffers fluid_init_all_channels allocates for a fobj
ObjectBuffers(fobj) ==
  (IF fobj.Translation # <<>> THEN 5 ELSE 0)
    + (IF fobj.AttractforceStrength # <<>> THEN 4 ELSE 0)

VertexBuffers(fobj) == IF fobj.VertexCache # <<>> THEN 1 ELSE 0

\* the heap after the MEM_callocN calls at the head of fluidsimBake
AllocBake(heap) ==
  [heap EXCEPT !["channels"] = @ + 1, !["fobjects"] = @ + 1,
               !["fsset"] = @ + 1, !["fb"] = @ + 1]

\* the heap after init_time and the allocations of fluid_init_all_channels
AllocChannels(heap, fobjs) ==
  [heap EXCEPT !["domain"] = @ + 4,
               !["fobj"] = @ + SumObjects(fobjs, [k \in DOMAIN fobjs |-> 1]),
               !["object"] = @ + SumObjects(fobjs, [k \in DOMAIN fobjs |-> ObjectBuffers(fobjs[k])]),
               !["vertex"] = @ + SumObjects(fobjs, [k \in DOMAIN fobjs |-> VertexBuffers(fobjs[k])])]

\* the MEM_freeN calls of set_vertex_channel on a fobj's vertex cache and the
\* verts and tris arrays it returned without freeing, over the frame loop
VertexFrees(fobj) == (IF fobj.VertexCacheFreed THEN 1 ELSE 0) + fobj.DoubleFrees

LostArrays(fobj) == fobj.LeakedArrays

\* the heap after the frame loop of fluid_init_all_channels
SampledHeap(heap, fobjs) ==
  [heap EXCEPT !["vertex"] = @ - SumObjects(fobjs, [k \in DOMAIN fobjs |-> VertexFrees(fobjs[k])]),
               !["arrays"] = @ + SumObjects(fobjs, [k \in DOMAIN fobjs |-> LostArrays(fobjs[k])])]

\* the heap after fluidbake_free_data(channels, fobjects, fsset, fb)
fluidbake_free_data(heap, chs, fobjs, fsset, fb) ==
  [heap EXCEPT
     !["domain"] = @ - (IF chs.timeAtFrame # <<>> THEN 4 ELSE 0),
     !["channels"] = @ - 1,
     !["object"] = @ - SumObjects(fobjs, [k \in DOMAIN fobjs |-> ObjectBuffers(fobjs[k])]),
     !["vertex"] = @ - SumObjects(fobjs, [k \in DOMAIN fobjs |-> VertexBuffers(fobjs[k])]),
     !["fobj"] = @ - SumObjects(fobjs, [k \in DOMAIN fobjs |-> 1]),
     !["fobjects"] = @ - 1,
     !["fsset"] = @ - (IF fsset THEN 1 ELSE 0),
     !["fb"] = @ - (IF fb THEN 1 ELSE 0)]

(* ---------------------- legacy bake: the operator ---------------------- *)

\* what a build can do with the settings lookup through a null fsDomain
NullDomainOutcomes == {"crash", "stray"}

\* the frames left by fluidsim_delete_until_lastframe, which deletes from
\* curFrame on until a frame's file is missing
RECURSIVE DeleteUntilLastframe(_, _)
DeleteUntilLastframe(baked, curFrame) ==
  IF curFrame \in baked THEN DeleteUntilLastframe(baked \ {curFrame}, curFrame + 1)
  ELSE baked

\* faulty variant of FreeBakeData: the channel data outlive fluidsimBake
FreeBakeData_keep == UNCHANGED <<channels, fobjects>>

\* fluidbake_free_data(channels, fobjects, ...)
FreeBakeData ==
  /\ channels' = NoChannels
  /\ fobjects' = <<>>

\* fluidsimBake up to its first return or to the frame loop of
\* fluid_init_all_channels
fluidsimBake_enter(do_job) ==
  LET noFrames == scene.efra - 0
      valid == fluid_validate_scene(scene, scene.active)
      paths == fluid_init_filepaths(fss.surfdataPath, fsys.dirs)
      length == scene.efra
      aniFrameTime == (fss.animEnd - fss.animStart) \div noFrames
      call == [NoBake EXCEPT !.calls = bake.calls + 1, !.job = bake.job,
                             !.fb = bake.fb,
                             !.simulated = bake.simulated, !.do_job = do_job,
                             !.fsDomain = scene.active, !.noFrames = noFrames,
                             !.origFrame = cfra, !.entered = TRUE,
                             !.heap = AllocBake(bake.heap)]
      checked == [call EXCEPT !.adopted = valid.fsDomain]
      freed == fluidbake_free_data(call.heap, NoChannels, <<>>, TRUE, TRUE)
      allocated == AllocateFluidObjects(scene.base, 1, length, cfra)
      settings == [fss EXCEPT !.bakeStart = 1, !.bakeEnd = scene.efra,
                              !.lastgoodframe = -1,
                              !.previewresxyz = IF @ > fss.resolutionxyz
                                                THEN fss.resolutionxyz ELSE @,
                              !.surfdataPath = paths.surfdataPath]
      Prepare(domain) ==
        /\ fss' = settings
        /\ fsys' = [fsys EXCEPT !.baked = DeleteUntilLastframe(@, 1)]
        /\ IF ~paths.ok
           THEN /\ bake' = [checked EXCEPT !.domain = domain, !.result = "CANCELLED",
                                           !.reports = paths.reports,
                                           !.targetDir = paths.targetDir,
                                           !.paths = "failed", !.heap = freed]
                /\ UNCHANGED <<channels, fobjects>>
           ELSE /\ bake' = [checked EXCEPT !.pc = "sampling", !.domain = domain,
                                           !.reports = paths.reports,
                                           !.targetDir = paths.targetDir,
                                           !.paths = "ok",
                                           !.heap = AllocChannels(@, allocated)]
                /\ channels' =
                     [length |-> length, aniFrameTime |-> aniFrameTime,
                      timeAtFrame |-> init_time(fss.animStart, length, aniFrameTime),
                      DomainTime |-> Calloc(length * (CHANNEL_FLOAT + 1)),
                      DomainGravity |-> Calloc(length * (CHANNEL_VEC + 1)),
                      DomainViscosity |-> Calloc(length * (CHANNEL_FLOAT + 1))]
                /\ fobjects' = allocated
  IN /\ UNCHANGED <<scene, cfra, is_break>>
     /\ IF noFrames <= 0
        THEN /\ bake' = [call EXCEPT
                           !.result = "CANCELLED",
                           !.reports = <<Error("No frames to export")>>,
                           !.heap = freed]
             /\ UNCHANGED <<fss, fsys, channels, fobjects>>
        ELSE IF valid.ret = 0
        THEN /\ bake' = [checked EXCEPT !.result = "CANCELLED",
                                        !.reports = valid.reports, !.heap = freed]
             /\ UNCHANGED <<fss, fsys, channels, fobjects>>
        ELSE IF scene.active = "NULL"
        THEN \E outcome \in NullDomainOutcomes :
               IF outcome = "crash"
               THEN /\ bake' = [checked EXCEPT !.pc = "crashed"]
                    /\ UNCHANGED <<fss, fsys, channels, fobjects>>
               ELSE Prepare("NULL")
        ELSE Prepare(scene.active)

\* invoke: only one bake job at a time
fluid_bake_invoke ==
  /\ bake.pc = "idle"
  /\ bake.calls < MaxCalls
  /\ IF bake.job # "none"
     THEN /\ bake' = [NoBake EXCEPT !.calls = bake.calls + 1, !.job = bake.job,
                                    !.fb = bake.fb,
                                    !.simulated = bake.simulated, !.do_job = TRUE,
                                    !.heap = bake.heap,
                                    !.fsDomain = scene.active,
                                    !.result = "CANCELLED"]
          /\ UNCHANGED <<scene, fss, fsys, channels, fobjects, cfra, is_break>>
     ELSE fluidsimBake_enter(TRUE)
  /\ UNCHANGED <<manta_vars, script>>

fluid_bake_exec ==
  /\ bake.pc = "idle"
  /\ bake.calls < MaxCalls
  /\ fluidsimBake_enter(FALSE)
  /\ UNCHANGED <<manta_vars, script>>

\* some fobj->VertexCache points at a block set_vertex_channel has freed
Dangling == \E k \in 1 .. Len(fobjects) : fobjects[k].VertexCacheFreed

\* what a write into, a read of or a second MEM_freeN of a freed block does
DanglingOutcomes == {"crash", "continue"}

\* one pass of the frame loop of fluid_init_all_channels
fluid_init_all_channels ==
  /\ bake.pc = "sampling"
  /\ bake.i < channels.length
  /\ LET i == bake.i
         eval_time == fss.bakeStart + i
         filled == FillDomainChannels(channels, scene, fss, i)
         timeAtFrame == filled.timeAtFrame[i + 1]
     IN /\ cfra' = eval_time
        /\ \E outcome \in IF Dangling THEN DanglingOutcomes ELSE {"continue"} :
             IF outcome = "crash"
             THEN /\ bake' = [bake EXCEPT !.pc = "crashed"]
                  /\ UNCHANGED <<channels, fobjects>>
             ELSE /\ channels' = filled
                  /\ fobjects' = [k \in 1 .. Len(fobjects) |->
                                    FillFluidObject(fobjects[k], timeAtFrame,
                                                    eval_time, i)]
                  /\ bake' = [bake EXCEPT !.i = i + 1]
  /\ UNCHANGED <<scene, fss, fsys, is_break>>
  /\ UNCHANGED <<manta_vars, script>>

\* the adaptive coarsening fluidsimBake derives from the resolution; it goes
\* into the debug message of fluidsimBake only
gridlevels(settings) ==
  IF settings.maxRefine < 0
  THEN IF settings.resolutionxyz > 128 THEN 2
       ELSE IF settings.resolutionxyz > 64 THEN 1 ELSE 0
  ELSE settings.maxRefine

\* faulty variant of RestoredFrame: the frame of the last sample is left
RestoredFrame_keep(origFrame, current) == current

\* scene->r.cfra after the frame loop
RestoredFrame(origFrame, current) == origFrame

\* fluidsimBake from the end of the frame loop to its return; the blocking
\* bake runs fluidbake_startjob, fluidbake_endjob and fluidbake_free itself.
\* Every path frees the channels, and with a dangling vertex cache that is a
\* second MEM_freeN of its block.
fluidsimBake ==
  /\ bake.pc = "sampling"
  /\ bake.i = channels.length
  /\ cfra' = RestoredFrame(bake.origFrame, cfra)
  /\ \E outcome \in IF Dangling THEN DanglingOutcomes ELSE {"continue"} :
       IF outcome = "crash"
       THEN /\ bake' = [bake EXCEPT !.pc = "crashed"]
            /\ UNCHANGED <<channels, fobjects, is_break>>
       ELSE
         /\ FreeBakeData
         /\ \E invertible \in BOOLEAN :
              LET sampled == SampledHeap(bake.heap, fobjects)
              IN IF ~invertible
                 THEN /\ bake' = [bake EXCEPT
                                    !.pc = "idle", !.result = "CANCELLED",
                                    !.reports = @ \o <<Error("Invalid object matrix")>>,
                                    !.heap = fluidbake_free_data(sampled, channels,
                                                                 fobjects, TRUE, TRUE)]
                      /\ UNCHANGED is_break
                 ELSE LET fsset == [animStart |-> fss.animStart,
                                    aniFrameTime |-> channels.aniFrameTime,
                                    noOfFrames |-> bake.noFrames,
                                    maxRefine |-> fss.maxRefine,
                                    channelSizeFrameTime |-> channels.length,
                                    channelSizeViscosity |-> channels.length,
                                    channelSizeGravity |-> channels.length]
                          released == fluidbake_free_data(sampled, channels, fobjects,
                                                          FALSE, FALSE)
                          ready == [bake EXCEPT
                                      !.pc = "idle", !.result = "FINISHED",
                                      !.elbeemInit = TRUE, !.fsset = fsset,
                                      !.gridlevels = gridlevels(fss),
                                      !.meshes = export_fluid_objects(fobjects, 1,
                                                                      channels.length)]
                      IN IF bake.do_job
                         THEN /\ bake' = [ready EXCEPT !.job = "scheduled",
                                                       !.scheduled = TRUE,
                                                       !.fb = [NoFb EXCEPT
                                                                 !.noOfFrames =
                                                                    fsset.noOfFrames],
                                                       !.heap = released]
                              /\ UNCHANGED is_break
                         ELSE /\ bake' = [ready EXCEPT
                                            !.simulated = @ + 1, !.ran = TRUE,
                                            !.heap = [released EXCEPT
                                                        !["fsset"] = @ - 1,
                                                        !["fb"] = @ - 1]]
                              /\ is_break' = FALSE
  /\ UNCHANGED <<scene, fss, fsys>>
  /\ UNCHANGED <<manta_vars, script>>

\* the status values the solver passes to runSimulationCallback
CallbackStatuses == {"STEP", "NEWFRAME"}

\* faulty variant of fluidbake_breakjob: the global break flag is not read
fluidbake_breakjob_stop(stop, break) == stop

\* fluidbake_breakjob: the job's stop flag, else G.is_break
fluidbake_breakjob(stop, break) == IF stop THEN TRUE ELSE break

\* fb after fluidbake_updatejob(fb, progress)
fluidbake_updatejob(fb, progress) ==
  [fb EXCEPT !.do_update = TRUE, !.progress = progress]

\* fb after runSimulationCallback(fb, status, frame), ret being its result
CallbackResult(fb, status, frame, break) ==
  LET updated == IF status = "NEWFRAME"
                 THEN fluidbake_updatejob(fb, (frame * 1000) \div fb.noOfFrames)
                 ELSE fb
  IN [updated EXCEPT !.status = status, !.frame = frame,
                     !.ret = IF fluidbake_breakjob(fb.stop, break)
                             THEN "ABORT" ELSE "CONTINUE"]

\* the job's thread enters fluidbake_startjob: it takes the job's flags,
\* clears the break flag and calls elbeemSimulate
fluidbake_startjob ==
  /\ bake.pc # "crashed"
  /\ bake.job = "scheduled"
  /\ is_break' = FALSE
  /\ bake' = [bake EXCEPT !.job = "running", !.simulated = @ + 1]
  /\ UNCHANGED <<scene, fss, fsys, channels, fobjects, cfra>>
  /\ UNCHANGED <<manta_vars, script>>

\* the solver calls runSimulationCallback, at a step or at a new frame,
\* until the callback has returned ABORT or the last frame is done
runSimulationCallback ==
  /\ bake.job = "running"
  /\ bake.fb.ret # "ABORT"
  /\ bake.fb.frame < bake.fb.noOfFrames
  /\ \E status \in CallbackStatuses :
       LET frame == IF status = "NEWFRAME" THEN bake.fb.frame + 1 ELSE bake.fb.frame
       IN bake' = [bake EXCEPT !.fb = CallbackResult(@, status, frame, is_break)]
  /\ UNCHANGED <<scene, fss, fsys, channels, fobjects, cfra, is_break>>
  /\ UNCHANGED <<manta_vars, script>>

\* elbeemSimulate has returned: *do_update = true; *stop = 0
fluidbake_startjob_return ==
  /\ bake.job = "running"
  /\ bake.fb.ret = "ABORT" \/ bake.fb.frame = bake.fb.noOfFrames
  /\ bake' = [bake EXCEPT !.job = "finished", !.fb.do_update = TRUE,
                          !.fb.stop = FALSE]
  /\ UNCHANGED <<scene, fss, fsys, channels, fobjects, cfra, is_break>>
  /\ UNCHANGED <<manta_vars, script>>

\* the window manager stops the running job: it sets the job's stop flag
WM_jobs_stop ==
  /\ bake.job = "running"
  /\ ~bake.fb.stop
  /\ bake' = [bake EXCEPT !.fb.stop = TRUE]
  /\ UNCHANGED <<scene, fss, fsys, channels, fobjects, cfra, is_break>>
  /\ UNCHANGED <<manta_vars, script>>

\* the window manager's timer takes the job's update request
wm_jobs_timer ==
  /\ bake.job = "running"
  /\ bake.fb.do_update
  /\ bake' = [bake EXCEPT !.fb.do_update = FALSE]
  /\ UNCHANGED <<scene, fss, fsys, channels, fobjects, cfra, is_break>>
  /\ UNCHANGED <<manta_vars, script>>

\* the main thread ends the finished job: fluidbake_endjob frees the solver
\* settings, and the job's customdata goes to fluidbake_free
fluidbake_endjob ==
  /\ bake.pc = "idle"
  /\ bake.job = "finished"
  /\ bake' = [bake EXCEPT !.job = "none",
                          !.heap = [@ EXCEPT !["fsset"] = @ - 1, !["fb"] = @ - 1]]
  /\ UNCHANGED <<scene, fss, fsys, channels, fobjects, cfra, is_break>>
  /\ UNCHANGED <<manta_vars, script>>

LegacyNext ==
  \/ fluid_bake_invoke
  \/ fluid_bake_exec
  \/ fluid_init_all_channels
  \/ fluidsimBake
  \/ fluidbake_startjob
  \/ runSimulationCallback
  \/ fluidbake_startjob_return
  \/ fluidbake_endjob

LegacySpec == LegacyInit /\ [][LegacyNext]_vars

\* the background job with the window manager and the pause operator beside
\* it: a scene of one domain and one fluid object, plain settings and files
JobInit ==
  /\ LegacyInit
  /\ scene.base = <<Ob("Domain", "DOMAIN", 1), Ob("Fluid", "FLUID", 1), Camera>>
  /\ scene.active = "Domain"
  /\ scene.efra > 0
  /\ fss.surfdataPath = ""
  /\ <<fss.animStart, fss.animEnd, fss.animRate>> = <<0, 1000, 1>>
  /\ <<fss.maxRefine, fss.resolutionxyz>> = <<-1, 50>>
  /\ fsys.baked = {}
  /\ \A d \in CacheDirs : fsys.dirs[d] = "writable"

JobNext ==
  \/ LegacyNext
  \/ WM_jobs_stop
  \/ wm_jobs_timer
  \/ fluid_manta_pause_exec

JobSpec == JobInit /\ [][JobNext]_vars

(* ----------------------- the script template engine -------------------- *)

\* A template is kept as its lines, a line as the identifiers and values it
\* is made of: `lhs = rhs(args)', with NoIdent for a line that assigns
\* nothing.  An identifier is a name, the solver it belongs to ("s" the base
\* solver, "sn" the noise solver, "sg" guiding, "" none) and the domain
\* placeholder: Ident("density", "sn") is density_sn$ID$, Ident("", "s") is
\* s$ID$ and Ident("smoke_step", "") is smoke_step_$ID$.  Message lines and
\* comments are left out.
Ident(name, solver) == [name |-> name, solver |-> solver, id |-> "$ID$"]

\* a word that carries no domain placeholder: a value, a grid type, a key
Word(w) == [name |-> w, solver |-> "", id |-> ""]

NoIdent == Word("")

S(name) == Ident(name, "s")

SN(name) == Ident(name, "sn")

Line(lhs, rhs, args) == [lhs |-> lhs, rhs |-> rhs, args |-> args]

Create(lhs, solver, grid) == Line(lhs, "create", <<Ident("", solver), Word(grid)>>)

smoke_bounds ==
  << Line(NoIdent, "initDomain", <<S("flags"), S("boundaryWidth")>>),
     Line(NoIdent, "fillGrid", <<S("flags")>>),
     Line(NoIdent, "if", <<S("doOpen")>>),
     Line(NoIdent, "setOpenBound",
          <<S("flags"), S("boundaryWidth"), S("boundConditions")>>) >>

smoke_variables ==
  << Line(S("preconditioner"), "PcMGStatic", <<>>),
     Line(S("using_colors"), "$USING_COLORS$", <<>>),
     Line(S("using_heat"), "$USING_HEAT$", <<>>),
     Line(S("using_fire"), "$USING_FIRE$", <<>>),
     Line(S("using_noise"), "$USING_NOISE$", <<>>),
     Line(S("vorticity"), "$VORTICITY$", <<>>),
     Line(S("buoyancy_dens"), "$BUOYANCY_ALPHA$", <<>>),
     Line(S("buoyancy_heat"), "$BUOYANCY_BETA$", <<>>) >>

smoke_alloc ==
  << Create(S("density"), "s", "RealGrid"),
     Create(S("emissionIn"), "s", "RealGrid"),
     Create(S("shadow"), "s", "RealGrid"),
     Line(S("heat"), "0", <<>>),
     Line(S("flame"), "0", <<>>),
     Line(S("fuel"), "0", <<>>),
     Line(S("react"), "0", <<>>),
     Line(S("color_r"), "0", <<>>),
     Line(S("color_g"), "0", <<>>),
     Line(S("color_b"), "0", <<>>),
     Line(S("smoke_data_dict"), "dict", <<S("density"), S("shadow")>>) >>

smoke_alloc_noise ==
  << Create(SN("vel"), "sn", "MACGrid"),
     Create(SN("density"), "sn", "RealGrid"),
     Create(SN("phiOut"), "sn", "LevelsetGrid"),
     Create(SN("phiObs"), "sn", "LevelsetGrid"),
     Create(SN("flags"), "sn", "FlagGrid"),
     Create(S("energy"), "s", "RealGrid"),
     Create(S("tempFlag"), "s", "FlagGrid"),
     Create(S("texture_u"), "s", "RealGrid"),
     Create(S("texture_v"), "s", "RealGrid"),
     Create(S("texture_w"), "s", "RealGrid"),
     Create(S("texture_u2"), "s", "RealGrid"),
     Create(S("texture_v2"), "s", "RealGrid"),
     Create(S("texture_w2"), "s", "RealGrid"),
     Create(SN("wltnoise"), "sn", "NoiseField"),
     Line(S("smoke_noise_dict"), "dict", <<SN("density")>>),
     Line(S("tmpDict"), "dict", <<S("texture_u"), S("texture_v"), S("texture_w")>>),
     Line(NoIdent, "update", <<S("smoke_noise_dict"), S("tmpDict")>>),
     Line(S("tmpDict"), "dict", <<S("texture_u2"), S("texture_v2"), S("texture_w2")>>),
     Line(NoIdent, "update", <<S("smoke_noise_dict"), S("tmpDict")>>) >>

smoke_alloc_colors ==
  << Create(S("color_r"), "s", "RealGrid"),
     Create(S("color_g"), "s", "RealGrid"),
     Create(S("color_b"), "s", "RealGrid"),
     Line(S("tmpDict"), "dict", <<S("color_r"), S("color_g"), S("color_b")>>),
     Line(NoIdent, "update", <<S("smoke_data_dict"), S("tmpDict")>>) >>

smoke_alloc_colors_noise ==
  << Create(SN("color_r"), "sn", "RealGrid"),
     Create(SN("color_g"), "sn", "RealGrid"),
     Create(SN("color_b"), "sn", "RealGrid"),
     Line(S("tmpDict"), "dict", <<SN("color_r"), SN("color_g"), SN("color_b")>>),
     Line(NoIdent, "update", <<S("smoke_noise_dict"), S("tmpDict")>>) >>

smoke_init_colors ==
  << Line(NoIdent, "copyFrom", <<S("color_r"), S("density")>>),
     Line(NoIdent, "multConst", <<S("color_r"), Word("$COLOR_R$")>>),
     Line(NoIdent, "copyFrom", <<S("color_g"), S("density")>>),
     Line(NoIdent, "multConst", <<S("color_g"), Word("$COLOR_G$")>>),
     Line(NoIdent, "copyFrom", <<S("color_b"), S("density")>>),
     Line(NoIdent, "multConst", <<S("color_b"), Word("$COLOR_B$")>>) >>

smoke_alloc_heat ==
  << Create(S("heat"), "s", "RealGrid"),
     Line(S("tmpDict"), "dict", <<S("heat")>>),
     Line(NoIdent, "update", <<S("smoke_data_dict"), S("tmpDict")>>) >>

\* faulty variant of smoke_alloc_fire: the fragment of the heat grid instead
smoke_alloc_fire_heat ==
  << Create(S("heat"), "s", "RealGrid"),
     Line(S("tmpDict"), "dict", <<S("heat")>>),
     Line(NoIdent, "update", <<S("smoke_data_dict"), S("tmpDict")>>) >>

smoke_alloc_fire ==
  << Create(S("flame"), "s", "RealGrid"),
     Create(S("fuel"), "s", "RealGrid"),
     Create(S("react"), "s", "RealGrid"),
     Line(S("tmpDict"), "dict", <<S("flame"), S("fuel"), S("react")>>),
     Line(NoIdent, "update", <<S("smoke_data_dict"), S("tmpDict")>>) >>

smoke_alloc_fire_noise ==
  << Create(SN("flame"), "sn", "RealGrid"),
     Create(SN("fuel"), "sn", "RealGrid"),
     Create(SN("react"), "sn", "RealGrid"),
     Line(S("tmpDict"), "dict", <<SN("react"), SN("fuel"), SN("flame")>>),
     Line(NoIdent, "update", <<S("smoke_noise_dict"), S("tmpDict")>>) >>

smoke_pre_step_noise ==
  << Line(NoIdent, "def", <<Ident("smoke_pre_step_noise", "")>>),
     Line(NoIdent, "if", <<S("using_obstacle")>>),
     Line(NoIdent, "interpolateGrid", <<SN("phiOut"), S("phiOut")>>),
     Line(NoIdent, "interpolateGrid", <<SN("phiObs"), S("phiObs")>>),
     Line(NoIdent, "global", <<S("uv")>>),
     Line(NoIdent, "if", <<S("uv")>>),
     Line(NoIdent, "copyRealToVec3",
          <<S("texture_u"), S("texture_v"), S("texture_w"), S("uv")>>),
     Line(NoIdent, "copyRealToVec3",
          <<S("texture_u2"), S("texture_v2"), S("texture_w2"), S("uv")>>),
     Line(NoIdent, "for", <<S("uvs")>>),
     Create(S("uvGrid"), "s", "VecGrid"),
     Line(NoIdent, "append", <<S("uv"), S("uvGrid")>>),
     Line(NoIdent, "resetUvGrid", <<S("uv")>>) >>

smoke_post_step_noise ==
  << Line(NoIdent, "def", <<Ident("smoke_post_step_noise", "")>>),
     Line(NoIdent, "copyVec3ToReal",
          <<S("uv"), S("texture_u"), S("texture_v"), S("texture_w")>>),
     Line(NoIdent, "copyVec3ToReal",
          <<S("uv"), S("texture_u2"), S("texture_v2"), S("texture_w2")>>) >>

smoke_adaptive_step ==
  << Line(NoIdent, "def", <<Ident("smoke_adaptive_step", "")>>),
     Line(Ident("", "s"), "frameLength", <<S("dt0")>>),
     Line(Ident("", "s"), "cfl", <<S("cfl_cond")>>),
     Line(NoIdent, "call", <<Ident("fluid_pre_step", "")>>),
     Line(NoIdent, "if", <<S("using_obstacle")>>),
     Line(NoIdent, "join", <<S("phiObs"), S("phiObsIn")>>),
     Line(NoIdent, "join", <<S("phiOut"), S("phiOutIn")>>),
     Line(NoIdent, "setObstacleFlags", <<S("flags"), S("phiObs"), S("phiOut")>>),
     Line(NoIdent, "fillGrid", <<S("flags")>>),
     Line(NoIdent, "if", <<S("using_fire")>>),
     Line(NoIdent, "call", <<Ident("process_burn", "")>>),
     Line(NoIdent, "call", <<Ident("smoke_step", "")>>),
     Line(NoIdent, "if", <<S("using_fire")>>),
     Line(NoIdent, "call", <<Ident("update_flame", "")>>),
     Line(NoIdent, "step", <<Ident("", "s")>>),
     Line(NoIdent, "call", <<Ident("fluid_post_step", "")>>) >>

smoke_adaptive_step_noise ==
  << Line(NoIdent, "def", <<Ident("smoke_adaptive_step_noise", "")>>),
     Line(Ident("", "sn"), "frame", <<>>),
     Line(Ident("", "sn"), "timeTotal", <<Ident("", "sn"), S("dt0")>>),
     Line(S("last_frame"), "frame", <<Ident("", "sn")>>),
     Line(NoIdent, "call", <<Ident("smoke_pre_step_noise", "")>>),
     Line(NoIdent, "while", <<Ident("", "sn"), S("last_frame")>>),
     Line(NoIdent, "setObstacleFlags", <<SN("flags"), SN("phiObs"), SN("phiOut")>>),
     Line(NoIdent, "fillGrid", <<SN("flags")>>),
     Line(NoIdent, "call", <<Ident("fluid_adapt_time_step_noise", "")>>),
     Line(NoIdent, "if", <<S("using_fire")>>),
     Line(NoIdent, "call", <<Ident("process_burn_noise", "")>>),
     Line(NoIdent, "call", <<Ident("step_noise", "")>>),
     Line(NoIdent, "if", <<S("using_fire")>>),
     Line(NoIdent, "call", <<Ident("update_flame_noise", "")>>),
     Line(NoIdent, "step", <<Ident("", "sn")>>),
     Line(NoIdent, "call", <<Ident("smoke_post_step_noise", "")>>) >>

Advect(flags, vel, grid) ==
  Line(NoIdent, "advectSemiLagrange", <<flags, vel, grid, Word("$ADVECT_ORDER$")>>)

smoke_step ==
  << Line(NoIdent, "def", <<Ident("smoke_step", "")>>),
     Advect(S("flags"), S("vel"), S("density")),
     Line(NoIdent, "if", <<S("using_heat")>>),
     Advect(S("flags"), S("vel"), S("heat")),
     Line(NoIdent, "if", <<S("using_fire")>>),
     Advect(S("flags"), S("vel"), S("fuel")),
     Advect(S("flags"), S("vel"), S("react")),
     Line(NoIdent, "if", <<S("using_colors")>>),
     Advect(S("flags"), S("vel"), S("color_r")),
     Advect(S("flags"), S("vel"), S("color_g")),
     Advect(S("flags"), S("vel"), S("color_b")),
     Line(NoIdent, "advectSemiLagrange",
          <<S("flags"), S("vel"), S("vel"), Word("$ADVECT_ORDER$"), S("doOpen"),
            S("boundaryWidth")>>),
     Line(NoIdent, "if", <<S("doOpen")>>),
     Line(NoIdent, "resetOutflow", <<S("flags"), S("density")>>),
     Line(NoIdent, "vorticityConfinement", <<S("vel"), S("flags"), S("vorticity")>>),
     Line(NoIdent, "if", <<S("using_heat")>>),
     Line(NoIdent, "addBuoyancy",
          <<S("flags"), S("density"), S("vel"), S("gravity"), S("buoyancy_dens")>>),
     Line(NoIdent, "addBuoyancy",
          <<S("flags"), S("heat"), S("vel"), S("gravity"), S("buoyancy_heat")>>),
     Line(NoIdent, "addBuoyancy",
          <<S("density"), S("vel"), S("gravity"), S("flags")>>),
     Line(NoIdent, "addForceField", <<S("flags"), S("vel"), S("forces")>>),
     Line(NoIdent, "if", <<S("using_obstacle")>>),
     Line(NoIdent, "extrapolateVec3Simple", <<S("obvelC"), S("phiObsIn"), S("res")>>),
     Line(NoIdent, "extrapolateVec3Simple", <<S("obvelC"), S("phiObsIn")>>),
     Line(NoIdent, "resampleVec3ToMac", <<S("obvelC"), S("obvel")>>),
     Line(NoIdent, "if", <<S("using_invel")>>),
     Line(NoIdent, "setInitialVelocity", <<S("flags"), S("vel"), S("invel")>>),
     Line(NoIdent, "setWallBcs",
          <<S("flags"), S("vel"), S("obvel"), S("using_obstacle")>>),
     Line(NoIdent, "if", <<S("using_guiding")>>),
     Line(NoIdent, "PD_fluid_guiding",
          <<S("vel"), S("velT"), S("flags"), S("weightGuide"),
            Ident("beta", "sg"), S("pressure"), Ident("tau", "sg"),
            Ident("sigma", "sg"), Ident("theta", "sg")>>),
     Line(NoIdent, "solvePressure",
          <<S("flags"), S("vel"), S("pressure"), S("preconditioner"), S("doOpen")>>),
     Line(NoIdent, "def", <<Ident("process_burn", "")>>),
     Line(NoIdent, "processBurn",
          <<S("fuel"), S("density"), S("react"), S("color_r"), S("using_colors"),
            S("color_g"), S("color_b")>>),
     Line(NoIdent, "def", <<Ident("update_flame", "")>>),
     Line(NoIdent, "updateFlame", <<S("react"), S("flame")>>) >>

smoke_step_noise ==
  << Line(NoIdent, "def", <<Ident("step_noise", "")>>),
     Line(NoIdent, "interpolateGrid", <<S("density"), SN("density")>>),
     Line(NoIdent, "interpolateMACGrid", <<S("vel"), SN("vel")>>),
     Line(NoIdent, "for", <<S("uvs")>>),
     Advect(S("flags"), S("vel"), S("uv")),
     Line(NoIdent, "updateUvWeight", <<S("uvs"), S("uv")>>),
     Line(NoIdent, "computeEnergy", <<S("flags"), S("vel"), S("energy")>>),
     Line(NoIdent, "copyFrom", <<S("tempFlag"), S("flags")>>),
     Line(NoIdent, "extrapolateSimpleFlags", <<S("flags"), S("tempFlag")>>),
     Line(NoIdent, "extrapolateSimpleFlags", <<S("tempFlag"), S("energy")>>),
     Line(NoIdent, "computeWaveletCoeffs", <<S("energy")>>),
     Line(S("sStr"), "wltStrength", <<S("wltStrength")>>),
     Line(S("sPos"), "2.0", <<>>),
     Line(NoIdent, "for", <<S("octaves")>>),
     Line(NoIdent, "for", <<S("uvs")>>),
     Line(S("uvWeight"), "getUvWeight", <<S("uv")>>),
     Line(NoIdent, "applyNoiseVec3",
          <<SN("flags"), SN("vel"), SN("wltnoise"), S("sStr"), S("uvWeight"),
            S("sPos"), S("energy"), S("uv")>>),
     Line(NoIdent, "for", <<SN("upres")>>),
     Line(NoIdent, "if", <<S("using_colors")>>),
     Advect(SN("flags"), SN("vel"), SN("color_r")),
     Advect(SN("flags"), SN("vel"), SN("color_g")),
     Advect(SN("flags"), SN("vel"), SN("color_b")),
     Line(NoIdent, "if", <<S("using_fire")>>),
     Advect(SN("flags"), SN("vel"), SN("fuel")),
     Advect(SN("flags"), SN("vel"), SN("react")),
     Advect(SN("flags"), SN("vel"), SN("density")),
     Line(NoIdent, "def", <<Ident("process_burn_noise", "")>>),
     Line(NoIdent, "processBurn",
          <<SN("fuel"), SN("density"), SN("react"), SN("color_r"),
            S("using_colors"), SN("color_g"), SN("color_b")>>),
     Line(NoIdent, "def", <<Ident("update_flame_noise", "")>>),
     Line(NoIdent, "updateFlame", <<SN("react"), SN("flame")>>) >>

smoke_load_data ==
  << Line(NoIdent, "def", <<Ident("smoke_load_data", "")>>),
     Line(NoIdent, "fluid_file_import", <<S("fluid_file_import"), S("smoke_data_dict")>>) >>

smoke_load_noise ==
  << Line(NoIdent, "def", <<Ident("smoke_load_noise", "")>>),
     Line(NoIdent, "fluid_file_import", <<S("fluid_file_import"), S("smoke_noise_dict")>>) >>

smoke_save_data ==
  << Line(NoIdent, "def", <<Ident("smoke_save_data", "")>>),
     Line(NoIdent, "fluid_file_export", <<S("fluid_file_export"), S("smoke_data_dict")>>) >>

smoke_save_noise ==
  << Line(NoIdent, "def", <<Ident("smoke_save_noise", "")>>),
     Line(NoIdent, "fluid_file_export", <<S("fluid_file_export"), S("smoke_noise_dict")>>) >>

\* a call of a load helper with the sub-directory it joins to cache_dir
Load(helper, dir, format) ==
  Line(NoIdent, "load", <<Ident(helper, ""), Word(dir), Word(format)>>)

smoke_standalone ==
  << Line(NoIdent, "def", <<Word("load")>>),
     Load("fluid_load_data", "data", "file_format_data"),
     Load("smoke_load_data", "data", "file_format_data"),
     Line(NoIdent, "if", <<S("using_noise")>>),
     Load("smoke_load_noise", "particles", "file_format_noise"),
     Line(NoIdent, "if", <<S("using_guiding")>>),
     Load("fluid_load_guiding", "guiding", "file_format_data"),
     Line(NoIdent, "def", <<Word("step")>>),
     Line(NoIdent, "call", <<Ident("smoke_adaptive_step", "")>>),
     Line(NoIdent, "if", <<S("using_noise")>>),
     Line(NoIdent, "call", <<Ident("smoke_adaptive_step_noise", "")>>) >>

\* the features of a domain that select fragments
Features == {"colors", "heat", "fire", "noise", "guiding"}

DomainIds == {0, 1, 12}

DomainTypes == {"GAS", "LIQUID"}

\* how a feature flag is written into the program
Flag(on) == IF on THEN "1" ELSE "0"

\* the named parameters of a domain with the features `flags'
Parameters(flags) ==
  [key \in {"$USING_COLORS$", "$USING_HEAT$", "$USING_FIRE$", "$USING_NOISE$",
            "$VORTICITY$", "$BUOYANCY_ALPHA$", "$BUOYANCY_BETA$", "$ADVECT_ORDER$",
            "$COLOR_R$", "$COLOR_G$", "$COLOR_B$"} |->
     CASE key = "$USING_COLORS$" -> Flag("colors" \in flags)
       [] key = "$USING_HEAT$" -> Flag("heat" \in flags)
       [] key = "$USING_FIRE$" -> Flag("fire" \in flags)
       [] key = "$USING_NOISE$" -> Flag("noise" \in flags)
       [] key = "$ADVECT_ORDER$" -> "2"
       [] OTHER -> "1.0"]

\* $ID$ becomes the domain's id in decimal
SubstituteId(ident, id) ==
  IF ident.id = "$ID$" THEN [ident EXCEPT !.id = ToString(id)] ELSE ident

\* $KEY$ becomes the parameter's value; a word that is no key of the
\* parameters stays as it is
SubstituteKey(word, params) ==
  IF word \in DOMAIN params THEN params[word] ELSE word

SubstituteWord(w, params, id) ==
  SubstituteId([w EXCEPT !.name = SubstituteKey(@, params)], id)

Substitute(line, params, id) ==
  [lhs |-> SubstituteWord(line.lhs, params, id),
   rhs |-> SubstituteKey(line.rhs, params),
   args |-> [k \in 1 .. Len(line.args) |-> SubstituteWord(line.args[k], params, id)]]

Optional(on, fragment) == IF on THEN fragment ELSE <<>>

\* the gas program before substitution: the base fragments in their order,
\* each optional fragment where its feature puts it
SmokeFragments(flags) ==
  smoke_bounds \o smoke_variables \o smoke_alloc
    \o Optional("colors" \in flags, smoke_alloc_colors)
    \o Optional("heat" \in flags, smoke_alloc_heat)
    \o Optional("fire" \in flags, smoke_alloc_fire)
    \o Optional("noise" \in flags, smoke_alloc_noise)
    \o Optional({"noise", "fire"} \subseteq flags, smoke_alloc_fire_noise)
    \o Optional({"noise", "colors"} \subseteq flags, smoke_alloc_colors_noise)
    \o Optional("colors" \in flags, smoke_init_colors)
    \o Optional("noise" \in flags, smoke_pre_step_noise \o smoke_post_step_noise)
    \o smoke_adaptive_step
    \o Optional("noise" \in flags, smoke_adaptive_step_noise)
    \o smoke_step
    \o Optional("noise" \in flags, smoke_step_noise)
    \o smoke_load_data \o smoke_load_noise \o smoke_save_data \o smoke_save_noise
    \o smoke_standalone

smoke_manta_export(flags, id) ==
  LET program == SmokeFragments(flags)
  IN [k \in 1 .. Len(program) |-> Substitute(program[k], Parameters(flags), id)]

\* the Create Mantaflow File operator: a solver object if the domain has
\* none (the allocation may leave it without one), the script directory,
\* and the program of the domain's flavor
manta_make_file_exec ==
  /\ script.flavor = "none"
  /\ \E fluid \in (IF script.fluid = "NULL" THEN {"NULL", "fluid"} ELSE {script.fluid}) :
       script' = [script EXCEPT
                    !.fluid = fluid,
                    !.dir = TRUE,
                    !.flavor = IF fluid = "NULL" THEN "skipped"
                               ELSE IF script.type = "GAS" THEN "gas" ELSE "liquid",
                    !.text = IF fluid # "NULL" /\ script.type = "GAS"
                             THEN smoke_manta_export(script.flags, script.id)
                             ELSE <<>>]
  /\ UNCHANGED <<manta_vars, legacy_vars, is_break, cfra>>

\* a domain before its program is written
ScriptInit ==
  /\ MantaInit
  /\ LegacyIdle
  /\ \E type \in DomainTypes, fluid \in {"NULL", "fluid"}, flags \in SUBSET Features,
        id \in DomainIds :
       script = [NoScript EXCEPT !.type = type, !.fluid = fluid, !.flags = flags,
                                 !.id = id]

ScriptNext == manta_make_file_exec

ScriptSpec == ScriptInit /\ [][ScriptNext]_vars

(* ------------------------------ properties ----------------------------- *)

\* a bake job whose end hook has run
BakeEnded == loc.pc = "ended" /\ job.type \in BakeTypes

\* number of times the frame loop re-evaluated frame f in the current series
TimesObserved(f) == Cardinality({i \in 1 .. Len(observed) : observed[i] = f})

\* the cancellations of the current series that precede the run in the slot
PriorCancels ==
  IF run.cancelled THEN SubSeq(series.cancels, 1, Len(series.cancels) - 1)
  ELSE series.cancels

\* C1: in every reachable state, for each of the five stages at most one of
\* BAKING_X and BAKED_X is set.  (Each hook clears one bit before it sets the
\* other, so the state between its two writes has neither.)
C1_AtMostOneOfBakingBaked ==
  \A X \in Stages : ~(BakingBit(X) \in cache_flag /\ BakedBit(X) \in cache_flag)

\* C1 witness: a stage that was baked before is being baked again while
\* another stage is baked.
C1_Witness ==
  /\ loc.pc = "loop"
  /\ job.type = "MANTA_OT_bake_data"
  /\ FLUID_DOMAIN_BAKING_DATA \in cache_flag
  /\ cache_frame_pause["DATA"] # 0
  /\ run.first = cache_frame_pause["DATA"]
  /\ FLUID_DOMAIN_BAKED_NOISE \in cache_flag

\* C2 (as claimed): after the end hook of a bake that was cancelled through
\* the break flag, BAKING_X is still set and BAKED_X is not set.
C2_CancelledKeepsBaking ==
  (BakeEnded /\ run.cancelled) =>
    /\ BakingBit(JobStage) \in cache_flag
    /\ BakedBit(JobStage) \notin cache_flag

\* C3 (as claimed): a free operator called while any of the five BAKING bits
\* is set returns CANCELLED (and so schedules nothing).
C3_FreeRejectedWhileAnyBaking ==
  (op.kind = "free" /\ op.baking) => op.result = "CANCELLED"

\* C4: once a series of runs of a stage that began with pause_X = 0, was
\* cancelled one or more times and resumed each time has run to completion,
\* every frame in [cache_frame_start, pause_X] was re-evaluated exactly once.
C4_ResumeObservesOnce ==
  (series.stage \in Stages /\ series.clean /\ series.complete /\ series.cancels # <<>>) =>
    \A f \in cache_frame_start .. cache_frame_pause[series.stage] : TimesObserved(f) = 1

\* C4 witness: a series that was cancelled twice and then completed.
C4_Witness ==
  /\ series.stage \in Stages
  /\ series.clean
  /\ series.complete
  /\ Len(series.cancels) = 2
  /\ cache_frame_pause[series.stage] = cache_frame_start + 2

\* the scenario of C5: DATA bake over frames 10..12, cancelled once at frame
\* 11, resumed, and ended
C5_Scenario ==
  /\ cache_frame_start = 10
  /\ cache_frame_end = 12
  /\ BakeEnded
  /\ job.type = "MANTA_OT_bake_data"
  /\ series.stage = "DATA"
  /\ series.clean
  /\ series.complete
  /\ series.cancels = <<11>>

\* C5 (as claimed): in the scenario the frames observed are [10,11,11,12] and
\* the final state is BAKED_DATA.
C5_ResumeReentersFrame ==
  C5_Scenario =>
    /\ run.first = 11
    /\ observed = <<10, 11, 11, 12>>
    /\ FLUID_DOMAIN_BAKED_DATA \in cache_flag

\* C5 (amended): a resumed run starts its frame loop at the frame at which the
\* previous run saw the break flag (at cache_frame_start for the first run of
\* a series); in the scenario the resumed loop begins at 11, the frames
\* observed in order are [10,11,12] and the final state is BAKED_DATA.
C5_ResumeStartsAtPause ==
  /\ (/\ job.type \in BakeTypes
      /\ loc.pc \in {"loop", "finished", "ended"}
      /\ run.first # 0
      /\ series.stage = JobStage
      /\ series.clean) =>
       run.first = IF PriorCancels = <<>> THEN cache_frame_start
                   ELSE PriorCancels[Len(PriorCancels)]
  /\ C5_Scenario =>
       /\ run.first = 11
       /\ observed = <<10, 11, 12>>
       /\ FLUID_DOMAIN_BAKED_DATA \in cache_flag
       /\ FLUID_DOMAIN_BAKING_DATA \notin cache_flag

\* C5 witness: the scenario has happened.
C5_Witness == C5_Scenario /\ Len(observed) = 3

\* C6 (as claimed): BAKING_X of a dependent stage becomes set only in states
\* where BAKED_DATA is set.
C6_DependentNeedsBakedData ==
  [][\A X \in Stages \ {"DATA"} :
       (BakingBit(X) \notin cache_flag /\ BakingBit(X) \in cache_flag') =>
         FLUID_DOMAIN_BAKED_DATA \in cache_flag]_vars

\* C7: when the free DATA job has run, the BAKING and BAKED bits of DATA,
\* NOISE, MESH and PARTICLES are clear and their directories are gone, while
\* the GUIDING bits, the guiding pause marker and the guiding directory are as
\* they were before the job (<cache> being the cache directory of the job).
C7_FreeDataCascade ==
  (loc.pc = "finished" /\ job.type = "MANTA_OT_free_data") =>
    /\ \A X \in {"DATA", "NOISE", "MESH", "PARTICLES"} :
         /\ BakingBit(X) \notin cache_flag
         /\ BakedBit(X) \notin cache_flag
         /\ X \notin dirs[run.directory]
    /\ cache_flag \cap {FLUID_DOMAIN_BAKING_GUIDING, FLUID_DOMAIN_BAKED_GUIDING}
         = run.pre_flag \cap {FLUID_DOMAIN_BAKING_GUIDING, FLUID_DOMAIN_BAKED_GUIDING}
    /\ cache_frame_pause["GUIDING"] = run.pre_pause["GUIDING"]
    /\ \A d \in CacheDirs : ("GUIDING" \in dirs[d]) = ("GUIDING" \in run.pre_dirs[d])

\* C7 witness: free DATA has run on a domain with a baked NOISE cache on disk
\* and a baked GUIDING cache, and the guiding cache is still there.
C7_Witness ==
  /\ loc.pc = "finished"
  /\ job.type = "MANTA_OT_free_data"
  /\ FLUID_DOMAIN_BAKED_NOISE \in run.pre_flag
  /\ "NOISE" \in run.pre_dirs[run.directory]
  /\ FLUID_DOMAIN_BAKED_GUIDING \in cache_flag
  /\ "GUIDING" \in dirs[run.directory]
  /\ cache_frame_pause["GUIDING"] # 0

\* C8: when the free job of X in {NOISE, MESH, PARTICLES, GUIDING} has run,
\* both bits of X are clear, <cache>/<X> is gone, pause_X is 0, and the bits,
\* pause markers and directories of every other stage are as before the job.
C8_FreeStage ==
  (loc.pc = "finished" /\ job.type \in FreeTypes \ {"MANTA_OT_free_data"}) =>
    /\ cache_flag = run.pre_flag \ {BakingBit(JobStage), BakedBit(JobStage)}
    /\ dirs = [run.pre_dirs EXCEPT ![run.directory] = @ \ {JobStage}]
    /\ cache_frame_pause = [run.pre_pause EXCEPT ![JobStage] = 0]

\* C8 witness: free NOISE has run on a domain whose NOISE and GUIDING stages
\* were baked.
C8_Witness ==
  /\ loc.pc = "finished"
  /\ job.type = "MANTA_OT_free_noise"
  /\ FLUID_DOMAIN_BAKED_NOISE \in run.pre_flag
  /\ "NOISE" \in run.pre_dirs[run.directory]
  /\ run.pre_pause["NOISE"] # 0
  /\ FLUID_DOMAIN_BAKED_GUIDING \in cache_flag
  /\ cache_frame_pause["GUIDING"] # 0

\* C9 (as claimed): if the step of frame f left an error in the domain's
\* error field, no frame after f was processed, the end hook reported the
\* error, and the stage keeps BAKING_X without BAKED_X.
C9_StepErrorStopsBake ==
  (BakeEnded /\ run.err_frame # 0) =>
    /\ run.last_frame = run.err_frame
    /\ report = "ERROR"
    /\ BakingBit(JobStage) \in cache_flag
    /\ BakedBit(JobStage) \notin cache_flag

\* C10 (as claimed): a bake job during which an error message was stored
\* ends with success = 0 and an ERROR report.
C10_StoredErrorIsReported ==
  (BakeEnded /\ run.stored_error) => (job.success = 0 /\ report = "ERROR")

\* C11 (as claimed): the end hook of every bake run that ended because the
\* frame loop saw the break flag reports at WARNING level, whatever earlier
\* runs on the domain stored.
C11_CancelReportsWarning ==
  (BakeEnded /\ run.cancelled) => report = "WARNING"

\* C12 (as claimed): a bake or free operator whose cache-path resolution
\* failed returns CANCELLED, and no job of it is scheduled or run.
C12_PathErrorCancels ==
  (op.kind \in {"bake", "free"} /\ op.paths = "failed") =>
    /\ op.result = "CANCELLED"
    /\ loc.pc \notin {"scheduled", "loop", "finished"}

\* C14: when a bake of stage X that started with no <cache>/<X> and covered
\* the frame range has been followed by free X and by a bake of X that ran to
\* completion (same frame range, no other job in between, no failing step,
\* the cache directory not changed while a bake ran), the
\* frames in <cache>/<X> and the two bits of X are those left by the first
\* bake, and the second bake started at cache_frame_start and wrote every
\* frame up to cache_frame_end.
C14_BakeFreeBake ==
  cycle.phase = "rebaked" =>
    /\ cycle.refiles = cycle.files
    /\ cycle.rebits = cycle.bits
    /\ cycle.first = cache_frame_start
    /\ cycle.refiles = cache_frame_start .. cache_frame_end

\* C14 witness: NOISE was baked over three frames or more, freed and baked
\* again.
C14_Witness ==
  /\ cycle.phase = "rebaked"
  /\ cycle.stage = "NOISE"
  /\ cycle.bits = {FLUID_DOMAIN_BAKED_NOISE}
  /\ Cardinality(cycle.files) >= 3


(* ------------------- properties of the legacy bake --------------------- *)

\* the mesh objects with a fluid modifier of one of the types, counted
RECURSIVE CountObjects(_, _, _)
CountObjects(base, k, types) ==
  IF k > Len(base) THEN 0
  ELSE (IF base[k].mesh /\ base[k].type \in types THEN base[k].count ELSE 0)
       + CountObjects(base, k + 1, types)

NumDomains == CountObjects(scene.base, 1, {"DOMAIN"})

NumInputs == CountObjects(scene.base, 1, {"FLUID", "INFLOW"})

NumChannelObjects ==
  CountObjects(scene.base, 1, {"FLUID", "INFLOW", "OBSTACLE", "OUTFLOW", "CONTROL"})

\* fluidsimBake has returned failure: an error is reported, the operator is
\* cancelled, the solver was neither initialised nor run and no job is scheduled
BakeFailed ==
  /\ bake.pc = "idle"
  /\ bake.result = "CANCELLED"
  /\ \E k \in 1 .. Len(bake.reports) : bake.reports[k].type = "RPT_ERROR"
  /\ ~bake.elbeemInit /\ ~bake.scheduled /\ ~bake.ran

\* the frame loop of fluid_init_all_channels has ended, fluidsimBake goes on
Sampled == bake.pc = "sampling" /\ bake.i = channels.length

\* C13 (amended): the path resolver returns failure whenever its first check
\* fails, also when the default directory is usable: the stored path is then
\* the default one, one error is reported for the first check and a second
\* one only if the default directory is unusable too; the legacy bake that
\* meets the failure is cancelled before the solver and before any job.
C13_ResolverFailsOnFirstCheck ==
  /\ \A path \in SurfdataPaths \cup CacheDirs, fs \in [CacheDirs -> DirStates] :
       LET paths == fluid_init_filepaths(path, fs)
           first_ok == fs[IF path = "" THEN "default" ELSE path] = "writable"
           errors == {k \in 1 .. Len(paths.reports) :
                        paths.reports[k].type = "RPT_ERROR"}
       IN /\ paths.ok = first_ok
          /\ ~first_ok => /\ paths.surfdataPath = "default"
                          /\ Cardinality(errors) =
                               IF fs["default"] = "writable" THEN 1 ELSE 2
  /\ \A directory \in {""} \cup CacheDirs, usable \in SUBSET CacheDirs :
       fluid_manta_initpaths(directory, usable).ok =
         ((IF directory = "" THEN "default" ELSE directory) \in usable)
  /\ bake.paths = "failed" => BakeFailed /\ fss.surfdataPath = "default"

\* C13 as stated: the resolver fails, and the bake with it, only when the
\* default directory is unusable too.
C13_FailsOnlyOnSecondFailure ==
  bake.paths = "failed" => fsys.dirs["default"] # "writable"

C13_Witness ==
  /\ bake.paths = "failed" /\ bake.result = "CANCELLED"
  /\ fsys.dirs["user"] = "readonly" /\ fsys.dirs["default"] = "writable"
  /\ bake.reports = <<Error("cache directory is not writable, reset to default")>>

\* C15 as stated: a bake of a scene whose number of DOMAIN objects is not
\* exactly one fails validation, whatever the caller's domain object is.
C15_NotOneDomainFails ==
  (bake.entered /\ NumDomains # 1) => BakeFailed

\* C16 as stated: a bake called with a null domain object in a scene with one
\* DOMAIN object that passes validation goes on with the adopted object.
C16_NullDomainAdopted ==
  (/\ bake.entered /\ bake.fsDomain = "NULL" /\ NumDomains = 1
   /\ scene.efra > 0 /\ fluid_validate_scene(scene, "NULL").ret = 1)
  => /\ bake.pc # "crashed"
     /\ bake.adopted # "NULL"
     /\ bake.domain = bake.adopted

\* C17 as stated: with all other conditions met, validation fails exactly
\* when there are more than 255 non-domain, non-particle fluid objects.
C17_AcceptsUpTo255 ==
  (/\ bake.entered /\ scene.efra > 0 /\ NumDomains = 1 /\ NumInputs > 0
   /\ \E k \in 1 .. Len(scene.base) :
        scene.base[k].type = "DOMAIN" /\ scene.base[k].name = bake.fsDomain)
  => ((bake.result = "CANCELLED" /\ bake.paths = "none")
        <=> NumChannelObjects > ChannelObjLimit)

\* C18: a bake with efra <= 0 or without a FLUID or INFLOW object reports an
\* error and returns failure (the operator is cancelled) without initialising
\* or running the solver and without scheduling a job.
C18_NoFramesOrNoInputFails ==
  (bake.entered /\ (scene.efra <= 0 \/ NumInputs = 0)) =>
    /\ BakeFailed
    /\ bake.paths = "none"
    /\ scene.efra <= 0 => bake.reports = <<Error("No frames to export")>>

C18_Witness ==
  /\ bake.entered /\ scene.efra > 0 /\ NumInputs = 0 /\ NumDomains = 1
  /\ bake.reports = <<Error("No fluid input objects in the scene")>>
  /\ bake.result = "CANCELLED"

\* C19 (amended): after channel sampling timeAtFrame has length + 1 entries,
\* timeAtFrame[0] = animStart and timeAtFrame[i + 1] = timeAtFrame[i] +
\* rate * aniFrameTime for every i in 0 .. length - 1, a negative rate
\* counting as 0; for frames 1..5, rate 1, animStart 0 and animEnd 1 the
\* length is 5 and timeAtFrame = [0, 0.2, 0.4, 0.6, 0.8, 1.0]; the settings
\* handed to the solver have noOfFrames = efra.
C19_TimeAtFrame ==
  /\ Sampled =>
       LET rate == IF fss.animRate < 0 THEN 0 ELSE fss.animRate
           t == channels.timeAtFrame
       IN /\ DOMAIN t = 0 .. channels.length
          /\ channels.length = scene.efra
          /\ t[0] = fss.animStart
          /\ \A i \in 0 .. channels.length - 1 :
               t[i + 1] = t[i] + rate * channels.aniFrameTime
          /\ (scene.efra = 5 /\ fss.animRate = 1 /\ fss.animStart = 0
              /\ fss.animEnd = 1000)
             => t = [k \in 0 .. 5 |-> 200 * k]
  /\ bake.elbeemInit => bake.fsset.noOfFrames = scene.efra

\* C19 as stated: after channel sampling timeAtFrame[1] is still animStart
\* and the later entries advance by rate * aniFrameTime.
C19_TimeAtFrameOneIsStart ==
  Sampled =>
    LET rate == IF fss.animRate < 0 THEN 0 ELSE fss.animRate
        t == channels.timeAtFrame
    IN /\ t[0] = fss.animStart /\ t[1] = fss.animStart
       /\ \A i \in 1 .. channels.length - 1 :
            t[i + 1] = t[i] + rate * channels.aniFrameTime

C19_Witness ==
  /\ Sampled /\ scene.efra = 5 /\ fss.animRate = 1
  /\ fss.animStart = 0 /\ fss.animEnd = 1000
  /\ channels.timeAtFrame[5] = 1000

\* the channel buffers of one FluidObject, each with the entries per sample;
\* a vertex cache set_vertex_channel has freed is no buffer any more
ObjectChannels(fobj) ==
  {<<fobj.Translation, CHANNEL_VEC + 1>>, <<fobj.Rotation, CHANNEL_VEC + 1>>,
   <<fobj.Scale, CHANNEL_VEC + 1>>, <<fobj.Active, CHANNEL_FLOAT + 1>>,
   <<fobj.InitialVelocity, CHANNEL_VEC + 1>>,
   <<fobj.AttractforceStrength, CHANNEL_FLOAT + 1>>,
   <<fobj.AttractforceRadius, CHANNEL_FLOAT + 1>>,
   <<fobj.VelocityforceStrength, CHANNEL_FLOAT + 1>>,
   <<fobj.VelocityforceRadius, CHANNEL_FLOAT + 1>>,
   <<IF fobj.VertexCacheFreed THEN <<>> ELSE fobj.VertexCache,
     fobj.numVerts * CHANNEL_VEC + 1>>}

\* the allocated channel buffers that carry the simulation time
TimedChannels ==
  {c \in {<<channels.DomainGravity, CHANNEL_VEC + 1>>,
          <<channels.DomainViscosity, CHANNEL_FLOAT + 1>>}
         \cup UNION {ObjectChannels(fobjects[k]) : k \in 1 .. Len(fobjects)} :
     c[1] # <<>>}

\* a buffer of length samples of stride entries whose time slots are time[i]
WellTimed(c, length, time) ==
  /\ DOMAIN c[1] = 0 .. length * c[2] - 1
  /\ \A i \in 0 .. length - 1 : c[1][i * c[2] + c[2] - 1] = time[i]

C21_TimeAtFrameMonotone ==
  Sampled =>
    LET t == channels.timeAtFrame
    IN /\ \A i \in 0 .. channels.length - 1 : t[i] <= t[i + 1]
       /\ (\A i \in 1 .. channels.length - 1 : t[i] < t[i + 1]) <=> (fss.animRate > 0)

\* C22 as stated: once a vertex-cache set has found a changed vertex count
\* and freed the channel, the object's reference to it is null, and no later
\* frame writes into the freed buffer or frees it again.
C22_DroppedCacheIsNeverTouched ==
  \A k \in 1 .. Len(fobjects) :
    fobjects[k].VertexCacheFreed =>
      /\ fobjects[k].VertexCache = <<>>
      /\ fobjects[k].StaleWrites = 0
      /\ fobjects[k].DoubleFrees = 0

\* the entry of scene->base a descriptor was exported for
BaseOf(name) ==
  scene.base[CHOOSE k \in 1 .. Len(scene.base) : scene.base[k].name = name]

\* C23 as stated: the descriptor exported for an animated object whose vertex
\* cache was dropped has no vertex channel and carries the translation,
\* rotation and scale channels instead.
C23_DroppedCacheExportsTransforms ==
  bake.elbeemInit =>
    \A k \in 1 .. Len(bake.meshes) :
      bake.meshes[k].freedVertices =>
        /\ bake.meshes[k].channelVertices = "NULL"
        /\ bake.meshes[k].channelTranslation = "Translation"
        /\ bake.meshes[k].channelRotation = "Rotation"
        /\ bake.meshes[k].channelScale = "Scale"

\* C24 as stated: when the bake has returned and no job of it is left, every
\* block the bake allocated has been freed exactly once: none is outstanding
\* and none was freed more often than allocated.
C24_EveryBlockReleasedOnce ==
  (bake.pc = "idle" /\ bake.job = "none") => bake.heap = NoHeap

\* C25 as stated: the channel data of a bake that reached the solver are
\* freed only after that bake's simulate call has returned, in a blocking
\* bake and in a background job.
C25_FreedAfterSimulate ==
  (bake.elbeemInit /\ channels = NoChannels /\ fobjects = <<>>) =>
    \/ bake.ran
    \/ bake.scheduled /\ bake.job \in {"finished", "none"}

\* C25 (amended): the channel data are allocated while fluidsimBake samples
\* and are freed when fluidsimBake returns, on success and on failure; a
\* blocking bake has run the solver by then, a background bake returns with
\* the data freed whether its job has run or not.
C25_FreedAtReturn ==
  /\ bake.pc = "sampling" =>
       channels.DomainTime # <<>> /\ Len(fobjects) > 0
  /\ bake.pc = "idle" => channels = NoChannels /\ fobjects = <<>>
  /\ (bake.elbeemInit /\ ~bake.do_job) => bake.ran /\ bake.simulated > 0

C25_Witness ==
  /\ bake.scheduled /\ bake.job = "scheduled" /\ bake.simulated = 0
  /\ Len(bake.meshes) > 0
  /\ channels = NoChannels /\ fobjects = <<>>

\* C28: the legacy bake changes scene->r.cfra only in steps taken while it
\* samples the channels, and whenever fluidsimBake has returned the current
\* frame is the one the bake was entered with.
C28_FrameRestored ==
  [][/\ cfra' # cfra => bake.pc = "sampling"
     /\ (bake'.pc = "idle" /\ bake'.entered) => cfra' = bake'.origFrame]_vars

C28_Witness ==
  /\ bake.pc = "idle" /\ bake.entered /\ bake.i = 5
  /\ bake.result = "CANCELLED"
  /\ cfra = bake.origFrame

\* C29: DOMAIN and PARTICLE objects get no descriptor and every other fluid
\* object gets one; the descriptor of an animated mesh carries the vertex
\* cache, null translation, rotation and scale channels and the obstacle
\* type no-slip, that of a CONTROL object the reverse flag instead; the
\* initial-velocity channel is set exactly for FLUID and INFLOW objects.
C29_AnimatedDescriptor ==
  bake.elbeemInit =>
    /\ {bake.meshes[k].name : k \in 1 .. Len(bake.meshes)}
         = {scene.base[k].name :
              k \in {j \in 1 .. Len(scene.base) :
                       scene.base[j].type \notin {"NONE", "DOMAIN", "PARTICLE"}}}
    /\ \A k \in 1 .. Len(bake.meshes) :
         LET d == bake.meshes[k]
             ob == BaseOf(d.name)
         IN /\ (ob.type = "CONTROL" \/ ob.novecgen) =>
                 /\ d.channelVertices = "VertexCache"
                 /\ d.channelTranslation = "NULL"
                 /\ d.channelRotation = "NULL"
                 /\ d.channelScale = "NULL"
                 /\ d.obstacleType =
                      IF ob.type # "CONTROL" THEN "NOSLIP"
                      ELSE IF ob.reverse THEN "REVERSE" ELSE "0"
            /\ (d.channelInitialVel # "NULL") <=> (ob.type \in {"FLUID", "INFLOW"})

C29_Witness ==
  /\ bake.elbeemInit
  /\ \E k \in 1 .. Len(bake.meshes) :
       /\ bake.meshes[k].name = "Cloth"
       /\ BaseOf("Cloth").typeFlags = {"PARTSLIP"}
       /\ bake.meshes[k].obstacleType = "NOSLIP"
       /\ bake.meshes[k].channelVertices = "VertexCache"
  /\ \E k \in 1 .. Len(bake.meshes) :
       /\ bake.meshes[k].type = "CONTROL"
       /\ bake.meshes[k].obstacleType = "REVERSE"

\* C30 as stated: the maxRefine of the solver settings is 2 for a resolution
\* above 128, 1 above 64 and 0 otherwise when the domain's maxRefine is
\* negative, and the domain's maxRefine when that is not negative.
C30_RefineFromResolution ==
  bake.elbeemInit =>
    bake.fsset.maxRefine =
      IF fss.maxRefine >= 0 THEN fss.maxRefine
      ELSE IF fss.resolutionxyz > 128 THEN 2
      ELSE IF fss.resolutionxyz > 64 THEN 1 ELSE 0

(* ----------------------- properties of the break flag ------------------ *)

\* C27 as stated: a pause requested after a bake was invoked and while a
\* break test of its frame loop was still to come is observed at the bake's
\* next break test, which stops the bake; the start of the job does not
\* lose it.
C27_PauseObserved ==
  [][(job.type \in BakeTypes /\ loc.pc = "loop" /\ loc' # loc /\ run.requested)
       => run'.cancelled]_vars

(* -------------------- properties of the legacy job --------------------- *)

\* a step in which runSimulationCallback has run
CallbackStep ==
  /\ bake.job = "running" /\ bake'.job = "running"
  /\ <<bake'.fb.status, bake'.fb.frame, bake'.fb.ret>>
       # <<bake.fb.status, bake.fb.frame, bake.fb.ret>>

\* C26: runSimulationCallback returns ABORT exactly when the job's stop flag
\* or the global break flag is set, whatever the status; at NEWFRAME it
\* sets do_update and progress = frame / noOfFrames, at any other status it
\* leaves both as they are.
C26_CallbackContract ==
  [][CallbackStep =>
       /\ bake'.fb.ret = IF bake.fb.stop \/ is_break THEN "ABORT" ELSE "CONTINUE"
       /\ IF bake'.fb.status = "NEWFRAME"
          THEN /\ bake'.fb.do_update
               /\ bake'.fb.progress = (bake'.fb.frame * 1000) \div bake.fb.noOfFrames
          ELSE /\ bake'.fb.do_update = bake.fb.do_update
               /\ bake'.fb.progress = bake.fb.progress]_vars

C26_Witness ==
  /\ bake.job = "running"
  /\ bake.fb.status = "STEP" /\ bake.fb.ret = "ABORT"
  /\ ~bake.fb.stop /\ is_break
  /\ ~bake.fb.do_update /\ bake.fb.progress > 0

(* -------------------- properties of the script templates --------------- *)

\* the identifier name_<solver><id> as it stands in an emitted program
Emitted(name, solver, id) == [name |-> name, solver |-> solver, id |-> id]

\* the identifiers and words of a line
Mentions(line) == {line.lhs} \cup {line.args[k] : k \in 1 .. Len(line.args)}

\* the lines of the written program that define `ident' as the plain value 0
Placeholders(ident) ==
  {k \in 1 .. Len(script.text) :
     script.text[k].lhs = ident /\ script.text[k].rhs = "0"}

\* the lines of the written program that allocate `ident' as a real grid of
\* the base solver of domain `id'
RealGridAllocations(ident, id) ==
  {k \in 1 .. Len(script.text) :
     /\ script.text[k].lhs = ident
     /\ script.text[k].rhs = "create"
     /\ script.text[k].args = <<Emitted("", "s", id), Word("RealGrid")>>}

AllocatedAfterPlaceholder(ident, id) ==
  \E i \in Placeholders(ident), j \in RealGridAllocations(ident, id) : i < j

\* a gas program of domain 0 with colors and fire and without noise
ColorsFireNoNoise ==
  /\ script.flavor = "gas"
  /\ script.id = 0
  /\ {"colors", "fire"} \subseteq script.flags
  /\ "noise" \notin script.flags

\* C31: the gas program of domain 0 with colors and fire and without noise
\* allocates color_r_s0 and fuel_s0 as real grids after the base block has
\* defined them as placeholders, and mentions no identifier of the noise
\* solver
C31_FragmentSelection ==
  ColorsFireNoNoise =>
    /\ AllocatedAfterPlaceholder(Emitted("color_r", "s", "0"), "0")
    /\ AllocatedAfterPlaceholder(Emitted("fuel", "s", "0"), "0")
    /\ \A k \in 1 .. Len(script.text) :
         \A w \in Mentions(script.text[k]) : w.solver # "sn"

C31_Witness ==
  /\ ColorsFireNoNoise
  /\ script.flags = {"colors", "fire"}
  /\ RealGridAllocations(Emitted("fuel", "s", "0"), "0") # {}
  /\ \E k \in 1 .. Len(script.text) :
       Emitted("density", "s", "0") \in Mentions(script.text[k])

\* a call of the load helper `helper' of domain `id' in the written program
LoadCalls(helper) ==
  {k \in 1 .. Len(script.text) :
     /\ script.text[k].rhs = "load"
     /\ script.text[k].args[1].name = helper}

\* C38: in the harness of a written gas program the data helpers read from
\* the data sub-directory, the noise helper from the noise sub-directory and
\* the guiding helper from the guiding sub-directory
C38_LoadDirectories ==
  script.flavor = "gas" =>
    /\ \A k \in LoadCalls("fluid_load_data") \cup LoadCalls("smoke_load_data") :
         script.text[k].args[2] = Word("data")
    /\ \A k \in LoadCalls("smoke_load_noise") : script.text[k].args[2] = Word("noise")
    /\ \A k \in LoadCalls("fluid_load_guiding") :
         script.text[k].args[2] = Word("guiding")

(* ------------------- properties of the legacy operator ----------------- *)

\* a call of the bake operator has run the solver in the calling thread
\* while a fluid-simulation job of the scene was in the job slot
SecondBakeActive ==
  /\ bake.job \in {"scheduled", "running"}
  /\ bake.calls > 1
  /\ ~bake.do_job
  /\ bake.ran

\* C32: at most one legacy bake is active per scene: no call of the bake
\* operator enters the bake while a fluid-simulation job of the scene is in
\* the job slot
C32_OneBakeActive == ~SecondBakeActive

(* --------------------- properties of the frame loop -------------------- *)

\* the frame loop of the job in the slot went through every frame from its
\* initial frame to cache_frame_end: it left through the loop condition, not
\* through the break test or the empty-range return, and it processed a frame
RanToCompletion ==
  /\ run.complete
  /\ ~run.cancelled
  /\ run.first # 0
  /\ run.first <= run.last_frame

\* C33: BAKED_X is set only after the final frame: when the end hook of a
\* bake of stage X has left BAKED_X set, the run went through every frame
\* from its initial frame to cache_frame_end; it was neither cancelled nor
\* ended by the empty-range error nor started beyond cache_frame_end
C33_BakedAfterFinalFrame ==
  (BakeEnded /\ BakedBit(JobStage) \in cache_flag) => RanToCompletion

\* C34: when a free job has run, the pause marker of every stage whose bits
\* it cleared and whose directory it removed is 0, also of NOISE, MESH and
\* PARTICLES when free DATA has freed them
C34_FreeResetsPause ==
  (loc.pc = "finished" /\ job.type \in FreeTypes) =>
    \A X \in FreeDirs(job.type) :
      (StageBits(X, cache_flag) = {} /\ X \notin dirs[run.directory]) =>
        cache_frame_pause[X] = 0

\* the worker of a bake job leaves fluid_manta_bake_sequence in this step
LeavesFrameLoop ==
  /\ job.type \in BakeTypes
  /\ loc.pc \in {"scheduled", "loop"}
  /\ loc'.pc = "finished"

\* the scene frame before the bake: the frame saved at the head of the loop,
\* or the current frame when the loop has not been reached
FrameBeforeBake == IF loc.pc = "loop" THEN loc.orig_frame ELSE cfra

\* C35: the frame loop leaves the scene's current frame at its value before
\* the bake on every exit path: completion, cancellation through the break
\* flag at any frame, and the empty-range error
C35_SceneFrameKept == [][LeavesFrameLoop => cfra' = FrameBeforeBake]_vars

(* ------------------ properties of a failed legacy bake ----------------- *)

\* this step is a call of the bake operator that entered fluidsimBake and in
\* which fluidsimBake returned failure
BakeFailsAtEntry ==
  /\ bake.pc = "idle"
  /\ bake'.pc = "idle"
  /\ bake'.calls = bake.calls + 1
  /\ bake'.entered
  /\ bake'.result = "CANCELLED"

\* the settings a bake writes while it prepares
PreparedSettings(settings) ==
  <<settings.bakeStart, settings.bakeEnd, settings.lastgoodframe,
    settings.previewresxyz>>

\* C36: when the legacy bake returns failure, the previously baked files are
\* still on disk and bakeStart, bakeEnd, lastgoodframe and previewresxyz
\* have the values they had before the call
C36_FailureKeepsOutput ==
  [][BakeFailsAtEntry =>
       /\ fsys'.baked = fsys.baked
       /\ PreparedSettings(fss') = PreparedSettings(fss)]_vars

(* ------------------ properties of the rotation samples ----------------- *)

\* the rotation sample of pass i in an object's Rotation channel
RotationSample(fobj, i) ==
  <<fobj.Rotation[4 * i], fobj.Rotation[4 * i + 1], fobj.Rotation[4 * i + 2]>>

\* the reference Euler the claim gives pass i: the zero vector for i = 0,
\* else the object's own sample of pass i - 1 times -pi/180
ReferenceEuler(fobj, i) ==
  IF i = 0 THEN <<0, 0, 0>> ELSE HostFromSolver(RotationSample(fobj, i - 1))

\* the objects the sampler gives rotation samples
Rotated == {k \in 1 .. Len(fobjects) : fobjects[k].type \notin {"DOMAIN", "PARTICLE"}}

\* C39: for every object that is neither DOMAIN nor PARTICLE and every pass
\* i of the sampler so far, the stored rotation sample of pass i is the
\* decomposition of the object's world matrix at that frame relative to the
\* reference Euler, times -180/pi; the reference is the zero vector for
\* i = 0 and the object's own sample of pass i - 1 times -pi/180 for i > 0
C39_RotationContinuity ==
  bake.pc = "sampling" =>
    \A k \in Rotated : \A i \in 0 .. bake.i - 1 :
      RotationSample(fobjects[k], i) =
        SolverFromHost(mat4_to_compatible_eulO(ReferenceEuler(fobjects[k], i),
                                               ObMatRot(fobjects[k], fss.bakeStart + i)))

\* C39 witness: five passes over a fluid object and an obstacle that turn at
\* different rates; the fluid object's samples have left (-180, 180]
C39_Witness ==
  /\ bake.pc = "sampling"
  /\ bake.i = 5
  /\ \E k \in Rotated, n \in Rotated :
       /\ fobjects[k].type = "FLUID"
       /\ fobjects[n].type = "OBSTACLE"
       /\ RotationSample(fobjects[k], 4) = <<0, 0, -450>>
       /\ RotationSample(fobjects[n], 1) = <<0, 0, 320>>

(* ------------------ properties of a bake job's progress ---------------- *)

Max(a, b) == IF a >= b THEN a ELSE b

\* the start hook of a bake job has run and its end hook has not
BakeStarted == job.type \in BakeTypes /\ loc.pc \in {"loop", "finished"}

\* the initial frame of the run: the empty-range return comes before the
\* frame is chosen
FirstFrame == IF run.first = 0 THEN cache_frame_start ELSE run.first

\* the worker has returned from a frame loop that no break signal ended
LoopReturned ==
  /\ job.type \in BakeTypes
  /\ loc.pc = "finished"
  /\ ~run.cancelled

\* this step is a pass of the frame loop that processes its frame
ProcessesFrame ==
  /\ loc.pc = "loop"
  /\ loc'.pc = "loop"
  /\ loc'.frame # loc.frame

\* a pass goes on to the next frame, has set the pause marker to its frame
\* and re-evaluated the scene there, and a job with a progress bar has
\* published (f - cache_frame_start) / frames, which is in [0, 1)
PassContract ==
  ProcessesFrame =>
    /\ loc'.frame = loc.frame + 1
    /\ cache_frame_pause'[JobStage] = loc.frame
    /\ cfra' = loc.frame
    /\ run'.iterations = run.iterations + 1
    /\ ~job.blocking =>
         /\ job'.do_update
         /\ job'.progress = <<loc.frame - cache_frame_start,
                              cache_frame_end - cache_frame_start + 1>>
         /\ 0 <= job'.progress[1]
         /\ job'.progress[1] < job'.progress[2]

\* a break signal stays until the loop's next break test, and that test ends
\* the loop without processing the frame
BreakStops ==
  (loc.pc = "loop" /\ is_break) =>
    /\ loc'.pc = "loop" => (is_break' /\ loc' = loc)
    /\ loc'.pc # "loop" => (loc'.pc = "finished" /\ run'.iterations = run.iterations)

====
